---------------------------- MODULE Spec2Model ----------------------------
(***************************************************************************)
(* Model of the product recognition core of Ecofoodai                      *)
(* (src/image_recognition.py): the text channel (extract_text,             *)
(* is_meaningful_text, get_best_text_for_title,                            *)
(* identify_product_from_text) and the fusion of the visual top-5 with the *)
(* text-identified product in ImageRecognizer.predict.                     *)
(*                                                                         *)
(* A Python str is a sequence of one-character strings.  A float is a      *)
(* fixed-point integer: probabilities and confidences are counted in       *)
(* 1/10000, confidence boosts and the 0.95 factor in 1/100, so that        *)
(* 0.95 * boost is the product of two integers, in 1/10000.                *)
(***************************************************************************)
EXTENDS Integers, Sequences, FiniteSets, TLC

\* ------------------------------------------------------------------------
\* Characters (str.isalpha, str.isdigit, str.isspace, str.lower, str.upper)
\* ------------------------------------------------------------------------
LowerOf ==
  ("A" :> "a") @@ ("B" :> "b") @@ ("C" :> "c") @@ ("D" :> "d") @@ ("E" :> "e") @@
  ("F" :> "f") @@ ("G" :> "g") @@ ("H" :> "h") @@ ("I" :> "i") @@ ("J" :> "j") @@
  ("K" :> "k") @@ ("L" :> "l") @@ ("M" :> "m") @@ ("N" :> "n") @@ ("O" :> "o") @@
  ("P" :> "p") @@ ("Q" :> "q") @@ ("R" :> "r") @@ ("S" :> "s") @@ ("T" :> "t") @@
  ("U" :> "u") @@ ("V" :> "v") @@ ("W" :> "w") @@ ("X" :> "x") @@ ("Y" :> "y") @@
  ("Z" :> "z") @@ ("Ä" :> "ä") @@ ("Ö" :> "ö") @@ ("Ü" :> "ü")

UpperLetters == DOMAIN LowerOf

LowerLetters == {LowerOf[c] : c \in UpperLetters} \cup {"ß"}

Digits == {"0", "1", "2", "3", "4", "5", "6", "7", "8", "9"}

Whitespace == {" ", "\n", "\t"}

isalpha(c) == c \in UpperLetters \/ c \in LowerLetters

isdigit(c) == c \in Digits

isspace(c) == c \in Whitespace

isalnum(c) == isalpha(c) \/ isdigit(c)

\* the regular expression class [\w\säöüÄÖÜß]
IsWordOrSpace(c) == isalnum(c) \/ c = "_" \/ isspace(c)

lower_char(c) == IF c \in UpperLetters THEN LowerOf[c] ELSE c

upper_char(c) ==
  IF c \in LowerLetters \ {"ß"} THEN CHOOSE u \in UpperLetters : LowerOf[u] = c ELSE c

\* ------------------------------------------------------------------------
\* Strings (str.lower, str.capitalize, str.strip, str.split, str.join, in)
\* ------------------------------------------------------------------------
lower(s) == [i \in 1..Len(s) |-> lower_char(s[i])]

capitalize(s) ==
  [i \in 1..Len(s) |-> IF i = 1 THEN upper_char(s[i]) ELSE lower_char(s[i])]

str_isalpha(s) == Len(s) > 0 /\ \A i \in 1..Len(s) : isalpha(s[i])

\* needle in hay
Contains(hay, needle) ==
  \E i \in 0..(Len(hay) - Len(needle)) :
     \A j \in 1..Len(needle) : hay[i + j] = needle[j]

strip(s) ==
  LET keep == {i \in 1..Len(s) : ~isspace(s[i])}
  IN  IF keep = {} THEN <<>>
      ELSE LET first == CHOOSE i \in keep : \A j \in keep : i <= j
               last  == CHOOSE i \in keep : \A j \in keep : j <= i
           IN  SubSeq(s, first, last)

\* the words of s from position i on; a word is a maximal run of
\* non-whitespace characters (str.split() without argument)
RECURSIVE SplitFrom(_, _)
SplitFrom(s, i) ==
  IF i > Len(s) THEN <<>>
  ELSE IF isspace(s[i]) THEN SplitFrom(s, i + 1)
  ELSE LET ends == {j \in i..Len(s) : j = Len(s) \/ isspace(s[j + 1])}
           e    == CHOOSE j \in ends : \A k \in ends : j <= k
       IN  <<SubSeq(s, i, e)>> \o SplitFrom(s, e + 1)

split(s) == SplitFrom(s, 1)

\* the pieces of s between occurrences of the character sep (str.split(sep))
RECURSIVE SplitOnFrom(_, _, _)
SplitOnFrom(s, sep, i) ==
  LET seps == {j \in i..Len(s) : s[j] = sep}
  IN  IF seps = {} THEN <<SubSeq(s, i, Len(s))>>
      ELSE LET e == CHOOSE j \in seps : \A k \in seps : j <= k
           IN  <<SubSeq(s, i, e - 1)>> \o SplitOnFrom(s, sep, e + 1)

split_on(s, sep) == SplitOnFrom(s, sep, 1)

\* sep.join(parts)
RECURSIVE join(_, _)
join(sep, parts) ==
  IF Len(parts) = 0 THEN <<>>
  ELSE IF Len(parts) = 1 THEN parts[1]
  ELSE parts[1] \o sep \o join(sep, Tail(parts))

\* re.sub(r'[^\w\säöüÄÖÜß]', '', s)
RemoveSpecial(s) == SelectSeq(s, IsWordOrSpace)

\* re.sub(r'[^\w\säöüÄÖÜß]', ' ', s)
BlankSpecial(s) == [i \in 1..Len(s) |-> IF IsWordOrSpace(s[i]) THEN s[i] ELSE " "]

\* re.sub(r'\s+', ' ', s)
CollapseWhitespace(s) ==
  LET kept(i) == ~isspace(s[i]) \/ i = 1 \/ ~isspace(s[i - 1])
      idx == SelectSeq([i \in 1..Len(s) |-> i], kept)
  IN  [k \in 1..Len(idx) |-> IF isspace(s[idx[k]]) THEN " " ELSE s[idx[k]]]

\* sum(c.isalpha() for c in s)
CountAlpha(s) == Cardinality({i \in 1..Len(s) : isalpha(s[i])})

\* ------------------------------------------------------------------------
\* is_meaningful_text (image_recognition.py, strict profile)
\* ------------------------------------------------------------------------
MinTextLength == 6

MinCleanedLength == 6

MinWordLength == 5

LongKnownWordLength == 6

common_german_words ==
  {<<"u","n","d">>, <<"d","e","r">>, <<"d","i","e">>, <<"d","a","s">>, <<"m","i","t">>, <<"f","ü","r">>,
    <<"v","o","n">>, <<"b","e","i">>, <<"a","u","s">>, <<"B","u","c","h">>, <<"T","e","x","t">>,
    <<"W","o","r","t">>, <<"P","r","e","i","s">>, <<"E","u","r","o">>, <<"K","a","u","f">>,
    <<"G","e","l","d">>, <<"Z","e","i","t">>, <<"J","a","h","r">>, <<"L","e","b","e","n">>,
    <<"M","e","n","s","c","h">>, <<"M","a","n","n">>, <<"F","r","a","u">>, <<"K","i","n","d">>,
    <<"S","t","a","d","t">>, <<"L","a","n","d">>, <<"H","a","u","s">>, <<"A","u","t","o">>,
    <<"W","a","s","s","e","r">>, <<"E","s","s","e","n">>, <<"M","i","l","c","h">>, <<"B","r","o","t">>,
    <<"Z","u","c","k","e","r">>, <<"S","a","l","z">>, <<"B","u","t","t","e","r">>, <<"K","ä","s","e">>,
    <<"F","l","e","i","s","c","h">>, <<"O","b","s","t">>, <<"G","e","m","ü","s","e">>, <<"W","e","i","n">>,
    <<"B","i","e","r">>, <<"H","o","t","e","l">>, <<"R","e","s","t","a","u","r","a","n","t">>,
    <<"S","c","h","u","l","e">>, <<"A","r","b","e","i","t">>, <<"S","c","h","r","i","f","t">>,
    <<"B","r","i","e","f">>, <<"P","o","s","t">>, <<"Z","e","i","t","u","n","g">>, <<"M","a","r","k","t">>,
    <<"S","t","r","a","ß","e">>, <<"Z","i","m","m","e","r">>, <<"T","i","s","c","h">>,
    <<"S","t","u","h","l">>, <<"B","e","t","t">>, <<"K","ü","c","h","e">>, <<"B","a","d">>,
    <<"W","o","h","n","u","n","g">>, <<"F","e","n","s","t","e","r">>, <<"T","ü","r">>, <<"D","a","c","h">>,
    <<"W","a","n","d">>, <<"M","e","h","l">>, <<"W","e","i","z","e","n">>,
    <<"W","e","i","ß","m","e","h","l">>, <<"W","e","i","z","e","n","m","e","h","l">>,
    <<"V","o","l","l","k","o","r","n">>, <<"V","o","l","l","k","o","r","n","m","e","h","l">>,
    <<"T","e","i","g">>, <<"T","e","i","g","w","a","r","e","n">>, <<"P","a","s","t","a">>,
    <<"S","p","a","g","h","e","t","t","i">>, <<"N","u","d","e","l">>, <<"N","u","d","e","l","n">>,
    <<"R","e","i","s">>, <<"K","a","r","t","o","f","f","e","l">>, <<"K","a","r","t","o","f","f","e","l","n">>,
    <<"G","e","t","r","ä","n","k">>, <<"G","e","t","r","ä","n","k","e">>, <<"C","o","l","a">>,
    <<"L","i","m","o","n","a","d","e">>, <<"S","a","f","t">>, <<"A","p","f","e","l">>,
    <<"B","a","n","a","n","e">>, <<"O","r","a","n","g","e">>, <<"B","i","r","n","e">>,
    <<"E","r","d","b","e","e","r","e">>, <<"H","i","m","b","e","e","r","e">>,
    <<"B","r","o","m","b","e","e","r","e">>, <<"H","e","i","d","e","l","b","e","e","r","e">>}

\* w occurs in s at position i
MatchAt(s, i, w) ==
  /\ i >= 1
  /\ i + Len(w) - 1 <= Len(s)
  /\ \A j \in 1..Len(w) : s[i + j - 1] = w[j]

\* the characters of s at positions a..b are matched by \s*
AllSpace(s, a, b) == \A p \in a..b : isspace(s[p])

\* the characters of s at positions a..b are matched by \d*
AllDigits(s, a, b) == \A p \in a..b : isdigit(s[p])

\* the characters of s at positions a..b are matched by .*
NoNewline(s, a, b) == \A p \in a..b : s[p] # "\n"

\* not c.isalnum() and not c.isspace()
IsSpecial(c) == ~isalnum(c) /\ ~isspace(c)

\* sum(not c.isalnum() and not c.isspace() for c in s)
CountSpecial(s) == Cardinality({i \in 1..Len(s) : IsSpecial(s[i])})

\* re.search(r'(weizen|mehl|weizenmehl|vollkorn).*?typ\s*\d+', s)
FlourTypePattern(s) ==
  \E kw \in {<<"w","e","i","z","e","n">>, <<"m","e","h","l">>,
             <<"w","e","i","z","e","n","m","e","h","l">>,
             <<"v","o","l","l","k","o","r","n">>} :
    \E i \in 1..Len(s) :
      /\ MatchAt(s, i, kw)
      /\ \E j \in (i + Len(kw))..Len(s) :
           /\ MatchAt(s, j, <<"t","y","p">>)
           /\ NoNewline(s, i + Len(kw), j - 1)
           /\ \E d \in (j + 3)..Len(s) :
                isdigit(s[d]) /\ AllSpace(s, j + 3, d - 1)

\* re.search(r'\d+[,.]\d+\s*€', s)
PricePattern(s) ==
  \E i \in 1..Len(s) :
    /\ isdigit(s[i])
    /\ i + 2 <= Len(s)
    /\ s[i + 1] \in {",", "."}
    /\ \E e \in (i + 2)..Len(s) :
         /\ AllDigits(s, i + 2, e)
         /\ \E k \in (e + 1)..Len(s) :
              s[k] = "€" /\ AllSpace(s, e + 1, k - 1)

\* re.search(r'ISBN.*?\d[-\s]?\d', s)
IsbnPattern(s) ==
  \E i \in 1..Len(s) :
    /\ MatchAt(s, i, <<"I","S","B","N">>)
    /\ \E j \in (i + 4)..Len(s) :
         /\ NoNewline(s, i + 4, j - 1)
         /\ isdigit(s[j])
         /\ \/ j + 1 <= Len(s) /\ isdigit(s[j + 1])
            \/ /\ j + 2 <= Len(s)
               /\ (s[j + 1] = "-" \/ isspace(s[j + 1]))
               /\ isdigit(s[j + 2])

\* "www." in text.lower() and ".de" in text.lower()
WebsitePattern(s) ==
  Contains(lower(s), <<"w","w","w",".">>) /\ Contains(lower(s), <<".","d","e">>)

\* the structural patterns at the end of is_meaningful_text
StructuralPattern(text, cleaned_text) ==
  \/ FlourTypePattern(lower(cleaned_text))
  \/ WebsitePattern(text)
  \/ PricePattern(text)
  \/ IsbnPattern(text)

\* [w for w in words if len(w) >= 5 and w.isalpha()]
LongAlphaWords(words) ==
  SelectSeq(words, LAMBDA w : Len(w) >= MinWordLength /\ str_isalpha(w))

\* [w.lower() for w in words if w.lower() in common_german_words]
KnownWords(words) ==
  LET hits == SelectSeq(words, LAMBDA w : lower(w) \in common_german_words)
  IN  [k \in 1..Len(hits) |-> lower(hits[k])]

\* the number of i with words[i] and words[i+1] both alphabetic
ConsecutiveWords(words) ==
  Cardinality({i \in 1..(Len(words) - 1) :
                 str_isalpha(words[i]) /\ str_isalpha(words[i + 1])})

is_meaningful_text(text) ==
  IF Len(text) = 0 \/ Len(strip(text)) < MinTextLength THEN FALSE
  ELSE IF CountSpecial(text) * 10000 > 3000 * Len(text) + 3 THEN FALSE
  ELSE
    LET cleaned_text     == strip(RemoveSpecial(text))
        words            == split(cleaned_text)
        meaningful_words == LongAlphaWords(words)
        known_words      == KnownWords(words)
        letters          == CountAlpha(cleaned_text)
    IN  IF Len(cleaned_text) < MinCleanedLength THEN FALSE
        ELSE IF Len(meaningful_words) < 1 THEN FALSE
        ELSE IF /\ \/ Len(known_words) >= 2
                   \/ Len(known_words) >= 1 /\ Len(meaningful_words) >= 2
                /\ letters * 10000 > 7000 * Len(cleaned_text) + 7
             THEN \/ ConsecutiveWords(words) > 0
                  \/ \E k \in 1..Len(known_words) :
                        Len(known_words[k]) >= LongKnownWordLength
        ELSE StructuralPattern(text, cleaned_text)

\* image_recognition_new.py: the floors and the letter share of the legacy
\* is_meaningful_text
LegacyMinTextLength == 3

LegacyMinCleanedLength == 3

LegacyMinWordLength == 3

\* [w for w in words if len(w) >= 3]
LegacyWords(words) == SelectSeq(words, LAMBDA w : Len(w) >= LegacyMinWordLength)

\* is_meaningful_text of image_recognition_new.py
is_meaningful_text_legacy(text) ==
  IF Len(text) = 0 \/ Len(strip(text)) < LegacyMinTextLength THEN FALSE
  ELSE
    LET cleaned_text     == strip(RemoveSpecial(text))
        words            == split(cleaned_text)
        meaningful_words == LegacyWords(words)
        letters          == CountAlpha(cleaned_text)
    IN  IF Len(cleaned_text) < LegacyMinCleanedLength THEN FALSE
        ELSE /\ Len(meaningful_words) >= 1
             /\ letters * 10000 > 5000 * Len(cleaned_text) + 5

\* ------------------------------------------------------------------------
\* get_best_text_for_title
\* ------------------------------------------------------------------------
MinTitleLength == 3

MinTitleWordLength == 3

DominantWordLength == 5

MaxTitleLength == 20

TruncatedTitleLength == 17

PlaceholderTitle == <<"T","e","x","t">>

filter_words ==
  {<<"t","y","p">>, <<"t","y","p","e">>, <<"m","l">>, <<"l">>, <<"g">>, <<"k","g">>, <<"m">>, <<"c","m">>,
    <<"m","m">>, <<"t","h","e">>, <<"u","n","d">>}

common_product_words ==
  <<<<"M","e","h","l">>, <<"W","e","i","z","e","n","m","e","h","l">>, <<"Z","u","c","k","e","r">>,
    <<"S","a","l","z">>, <<"M","i","l","c","h">>, <<"B","r","o","t">>, <<"W","a","s","s","e","r">>,
    <<"B","u","t","t","e","r">>, <<"K","ä","s","e">>, <<"B","u","c","h">>, <<"I","S","B","N">>,
    <<"R","o","m","a","n">>, <<"K","a","f","f","e","e">>, <<"T","e","e">>, <<"W","e","i","n">>>>

\* the end of the match of (Typ|TYP|Type)\s*\d+ that starts at i, 0 if none:
\* the alternatives are tried in order, \s* and \d+ are greedy
TypeCodeEndAt(s, i) ==
  LET alts == << <<"T","y","p">>, <<"T","Y","P">>, <<"T","y","p","e">> >>
      \* first position at or after p that is not whitespace
      SkipSpace(p) ==
        LET rest == {q \in p..Len(s) : ~isspace(s[q])}
        IN  IF rest = {} THEN Len(s) + 1
            ELSE CHOOSE q \in rest : \A r \in rest : q <= r
      \* last position of the run of digits that starts at p
      DigitsEnd(p) ==
        LET stops == {q \in p..Len(s) : q = Len(s) \/ ~isdigit(s[q + 1])}
        IN  CHOOSE q \in stops : \A r \in stops : q <= r
      EndOf(a) ==
        IF ~MatchAt(s, i, alts[a]) THEN 0
        ELSE LET d == SkipSpace(i + Len(alts[a]))
             IN  IF d <= Len(s) /\ isdigit(s[d]) THEN DigitsEnd(d) ELSE 0
      ok == {a \in 1..3 : EndOf(a) > 0}
  IN  IF ok = {} THEN 0
      ELSE EndOf(CHOOSE a \in ok : \A b \in ok : a <= b)

\* re.search(r'(Typ|TYP|Type)\s*\d+', s).group(0), <<>> if there is no match
TypeCodeMatch(s) ==
  LET starts == {i \in 1..Len(s) : TypeCodeEndAt(s, i) > 0}
  IN  IF starts = {} THEN <<>>
      ELSE LET i == CHOOSE k \in starts : \A m \in starts : k <= m
           IN  SubSeq(s, i, TypeCodeEndAt(s, i))

\* the words kept as candidates for the title: at least 3 characters, not
\* a filter word, more than half of the characters letters
TitleWords(words) ==
  SelectSeq(words, LAMBDA w :
    /\ ~(Len(w) < MinTitleWordLength \/ lower(w) \in filter_words)
    /\ 2000 * CountAlpha(w) > 1000 * Len(w) + 1)

\* max(meaningful_words, key=len): the first word of maximal length
LongestWord(ws) ==
  LET best == {k \in 1..Len(ws) : \A m \in 1..Len(ws) : Len(ws[m]) <= Len(ws[k])}
  IN  ws[CHOOSE k \in best : \A m \in best : k <= m]

\* " ".join(meaningful_words[:2]), cut to 17 characters + "..." over 20
AssembledTitle(ws) ==
  LET title == join(<<" ">>, SubSeq(ws, 1, 2))
  IN  capitalize(IF Len(title) > MaxTitleLength
                 THEN SubSeq(title, 1, TruncatedTitleLength) \o <<".",".",".">>
                 ELSE title)

\* the longest word is looked at before the known product words
get_best_text_for_title_LongestFirst(text) ==
  IF Len(text) = 0 THEN PlaceholderTitle
  ELSE
    LET cleaned_text     == strip(CollapseWhitespace(BlankSpecial(text)))
        words            == split(cleaned_text)
        meaningful_words == TitleWords(words)
        found == {k \in 1..Len(common_product_words) :
                    Contains(lower(cleaned_text), lower(common_product_words[k]))}
    IN  IF Len(cleaned_text) < MinTitleLength THEN PlaceholderTitle
        ELSE IF Len(meaningful_words) = 0
             THEN IF TypeCodeMatch(cleaned_text) # <<>>
                  THEN capitalize(TypeCodeMatch(cleaned_text))
                  ELSE PlaceholderTitle
        ELSE IF Len(LongestWord(meaningful_words)) >= DominantWordLength
             THEN capitalize(LongestWord(meaningful_words))
        ELSE IF found # {}
             THEN common_product_words[CHOOSE k \in found : \A m \in found : k <= m]
        ELSE IF Len(meaningful_words) = 1
             THEN capitalize(meaningful_words[1])
        ELSE AssembledTitle(meaningful_words)

\* the type code is returned as it was matched
get_best_text_for_title_Verbatim(text) ==
  IF Len(text) = 0 THEN PlaceholderTitle
  ELSE
    LET cleaned_text     == strip(CollapseWhitespace(BlankSpecial(text)))
        words            == split(cleaned_text)
        meaningful_words == TitleWords(words)
        found == {k \in 1..Len(common_product_words) :
                    Contains(lower(cleaned_text), lower(common_product_words[k]))}
    IN  IF Len(cleaned_text) < MinTitleLength THEN PlaceholderTitle
        ELSE IF Len(meaningful_words) = 0
             THEN IF TypeCodeMatch(cleaned_text) # <<>>
                  THEN TypeCodeMatch(cleaned_text)
                  ELSE PlaceholderTitle
        ELSE IF found # {}
             THEN common_product_words[CHOOSE k \in found : \A m \in found : k <= m]
        ELSE IF Len(LongestWord(meaningful_words)) >= DominantWordLength
             THEN capitalize(LongestWord(meaningful_words))
        ELSE IF Len(meaningful_words) = 1
             THEN capitalize(meaningful_words[1])
        ELSE AssembledTitle(meaningful_words)

get_best_text_for_title(text) ==
  IF Len(text) = 0 THEN PlaceholderTitle
  ELSE
    LET cleaned_text     == strip(CollapseWhitespace(BlankSpecial(text)))
        words            == split(cleaned_text)
        meaningful_words == TitleWords(words)
        found == {k \in 1..Len(common_product_words) :
                    Contains(lower(cleaned_text), lower(common_product_words[k]))}
    IN  IF Len(cleaned_text) < MinTitleLength THEN PlaceholderTitle
        ELSE IF Len(meaningful_words) = 0
             THEN IF TypeCodeMatch(cleaned_text) # <<>>
                  THEN capitalize(TypeCodeMatch(cleaned_text))
                  ELSE PlaceholderTitle
        ELSE IF found # {}
             THEN common_product_words[CHOOSE k \in found : \A m \in found : k <= m]
        ELSE IF Len(LongestWord(meaningful_words)) >= DominantWordLength
             THEN capitalize(LongestWord(meaningful_words))
        ELSE IF Len(meaningful_words) = 1
             THEN capitalize(meaningful_words[1])
        ELSE AssembledTitle(meaningful_words)

\* ------------------------------------------------------------------------
\* identify_product_from_text
\* ------------------------------------------------------------------------
\* the absent result (Python None)
None == [none |-> TRUE]

\* confidence_boost of a product synthesized from the text, in 1/100
SynthesizedBoost == 85

PRODUCT_TEXT_MAPPING ==
  <<[key |-> <<"M","e","h","l">>,
     name |-> <<"M","e","h","l">>,
     description |-> <<"W","e","i","z","e","n","m","e","h","l">>,
     confidence_boost |-> 120],
    [key |-> <<"W","e","i","z","e","n","m","e","h","l">>,
     name |-> <<"W","e","i","z","e","n","m","e","h","l">>,
     description |-> <<"W","e","i","z","e","n","m","e","h","l">>,
     confidence_boost |-> 150],
    [key |-> <<"Z","u","c","k","e","r">>,
     name |-> <<"Z","u","c","k","e","r">>,
     description |-> <<"Z","u","c","k","e","r">>,
     confidence_boost |-> 120],
    [key |-> <<"R","a","f","f","i","n","a","d","e","z","u","c","k","e","r">>,
     name |-> <<"R","a","f","f","i","n","a","d","e","z","u","c","k","e","r">>,
     description |-> <<"F","e","i","n","e","r"," ","Z","u","c","k","e","r">>,
     confidence_boost |-> 150],
    [key |-> <<"M","i","l","c","h">>,
     name |-> <<"M","i","l","c","h">>,
     description |-> <<"F","r","i","s","c","h","e"," ","M","i","l","c","h">>,
     confidence_boost |-> 120],
    [key |-> <<"V","o","l","l","m","i","l","c","h">>,
     name |-> <<"V","o","l","l","m","i","l","c","h">>,
     description |-> <<"V","o","l","l","m","i","l","c","h">>,
     confidence_boost |-> 150],
    [key |-> <<"B","r","o","t">>,
     name |-> <<"B","r","o","t">>,
     description |-> <<"B","r","o","t">>,
     confidence_boost |-> 120],
    [key |-> <<"V","o","l","l","k","o","r","n","b","r","o","t">>,
     name |-> <<"V","o","l","l","k","o","r","n","b","r","o","t">>,
     description |-> <<"V","o","l","l","k","o","r","n","b","r","o","t">>,
     confidence_boost |-> 150],
    [key |-> <<"W","a","s","s","e","r">>,
     name |-> <<"W","a","s","s","e","r">>,
     description |-> <<"M","i","n","e","r","a","l","w","a","s","s","e","r">>,
     confidence_boost |-> 120],
    [key |-> <<"M","i","n","e","r","a","l","w","a","s","s","e","r">>,
     name |-> <<"M","i","n","e","r","a","l","w","a","s","s","e","r">>,
     description |-> <<"M","i","n","e","r","a","l","w","a","s","s","e","r">>,
     confidence_boost |-> 150],
    [key |-> <<"B","u","t","t","e","r">>,
     name |-> <<"B","u","t","t","e","r">>,
     description |-> <<"B","u","t","t","e","r">>,
     confidence_boost |-> 150],
    [key |-> <<"K","ä","s","e">>,
     name |-> <<"K","ä","s","e">>,
     description |-> <<"K","ä","s","e">>,
     confidence_boost |-> 120],
    [key |-> <<"G","o","u","d","a">>,
     name |-> <<"G","o","u","d","a">>,
     description |-> <<"G","o","u","d","a"," ","K","ä","s","e">>,
     confidence_boost |-> 150],
    [key |-> <<"B","u","c","h">>,
     name |-> <<"B","u","c","h">>,
     description |-> <<"B","u","c","h">>,
     confidence_boost |-> 120],
    [key |-> <<"I","S","B","N">>,
     name |-> <<"B","u","c","h">>,
     description |-> <<"B","u","c","h"," ","m","i","t"," ","I","S","B","N">>,
     confidence_boost |-> 150],
    [key |-> <<"R","o","m","a","n">>,
     name |-> <<"R","o","m","a","n">>,
     description |-> <<"R","o","m","a","n","w","e","r","k">>,
     confidence_boost |-> 130],
    [key |-> <<"K","a","f","f","e","e">>,
     name |-> <<"K","a","f","f","e","e">>,
     description |-> <<"K","a","f","f","e","e">>,
     confidence_boost |-> 130],
    [key |-> <<"T","e","e">>,
     name |-> <<"T","e","e">>,
     description |-> <<"T","e","e">>,
     confidence_boost |-> 130],
    [key |-> <<"Z","e","i","t","u","n","g">>,
     name |-> <<"Z","e","i","t","u","n","g">>,
     description |-> <<"T","a","g","e","s","z","e","i","t","u","n","g">>,
     confidence_boost |-> 130],
    [key |-> <<"M","a","g","a","z","i","n">>,
     name |-> <<"M","a","g","a","z","i","n">>,
     description |-> <<"Z","e","i","t","s","c","h","r","i","f","t">>,
     confidence_boost |-> 130],
    [key |-> <<"W","e","i","n">>,
     name |-> <<"W","e","i","n">>,
     description |-> <<"W","e","i","n","f","l","a","s","c","h","e">>,
     confidence_boost |-> 130],
    [key |-> <<"R","o","t","w","e","i","n">>,
     name |-> <<"R","o","t","w","e","i","n">>,
     description |-> <<"R","o","t","w","e","i","n">>,
     confidence_boost |-> 150],
    [key |-> <<"W","e","i","ß","w","e","i","n">>,
     name |-> <<"W","e","i","ß","w","e","i","n">>,
     description |-> <<"W","e","i","ß","w","e","i","n">>,
     confidence_boost |-> 150]>>

\* the value stored in the registry under its k-th key
ProductOf(k) ==
  [name             |-> PRODUCT_TEXT_MAPPING[k].name,
   description      |-> PRODUCT_TEXT_MAPPING[k].description,
   confidence_boost |-> PRODUCT_TEXT_MAPPING[k].confidence_boost]

\* score = len(key) * product["confidence_boost"], in 1/100
Score(k) == Len(PRODUCT_TEXT_MAPPING[k].key) * PRODUCT_TEXT_MAPPING[k].confidence_boost

\* key.lower() in text_lower
KeyOccurs(k, text_lower) == Contains(text_lower, lower(PRODUCT_TEXT_MAPPING[k].key))

\* an equal score replaces the best match so far
Better_OrEqual(score, best_score) == score >= best_score

\* only the first match is kept
Better_FirstOnly(score, best_score) == best_score = 0

\* a strictly better score replaces the best match so far
Better(score, best_score) == score > best_score

\* the loop over PRODUCT_TEXT_MAPPING.items() from its k-th entry on; the
\* result is the index of the best match, 0 for no match
RECURSIVE ScanRegistry(_, _, _, _)
ScanRegistry(text_lower, k, best_match, best_score) ==
  IF k > Len(PRODUCT_TEXT_MAPPING) THEN best_match
  ELSE IF KeyOccurs(k, text_lower) /\ Better(Score(k), best_score)
       THEN ScanRegistry(text_lower, k + 1, k, Score(k))
       ELSE ScanRegistry(text_lower, k + 1, best_match, best_score)

BestMatchIndex(text) == ScanRegistry(lower(text), 1, 0, 0)

\* the text itself is given the boost of a registry entry
SynthesizedProduct_RegistryBoost(text) ==
  [name             |-> get_best_text_for_title(text),
   description      |-> get_best_text_for_title(text),
   confidence_boost |-> PRODUCT_TEXT_MAPPING[1].confidence_boost]

\* the product made of the text itself when no registry key occurs in it
SynthesizedProduct(text) ==
  [name             |-> get_best_text_for_title(text),
   description      |-> get_best_text_for_title(text),
   confidence_boost |-> SynthesizedBoost]

\* the text itself is made a product without asking is_meaningful_text
identify_product_from_text_Unfiltered(text) ==
  IF Len(text) = 0 \/ strip(text) = <<>> THEN None
  ELSE LET best == BestMatchIndex(text)
       IN  IF best # 0 THEN ProductOf(best)
           ELSE SynthesizedProduct(text)

identify_product_from_text(text) ==
  IF Len(text) = 0 \/ strip(text) = <<>> THEN None
  ELSE LET best == BestMatchIndex(text)
       IN  IF best # 0 THEN ProductOf(best)
           ELSE IF is_meaningful_text(text) THEN SynthesizedProduct(text)
           ELSE None

\* ------------------------------------------------------------------------
\* extract_text
\* ------------------------------------------------------------------------
\* What the OCR backend does on one pass: ok = FALSE when a statement of
\* the pass raises, text is the raw string image_to_string returns
PassFails == [ok |-> FALSE, text |-> <<>>]

PassReads(raw) == [ok |-> TRUE, text |-> raw]

\* results.append(text) if text.strip(), for a pass inside its own try
PassResult(pass) ==
  IF pass.ok /\ strip(pass.text) # <<>> THEN <<pass.text>> ELSE <<>>

\* the lines are kept as they are, only the blank ones dropped
CleanLines_Unstripped(all_text) ==
  SelectSeq(split_on(all_text, "\n"), LAMBDA line : strip(line) # <<>>)

\* [line.strip() for line in all_text.split('\n') if line.strip()]
CleanLines(all_text) ==
  LET lines == split_on(all_text, "\n")
      kept  == SelectSeq(lines, LAMBDA line : strip(line) # <<>>)
  IN  [k \in 1..Len(kept) |-> strip(kept[k])]

\* ocr[1] is the grayscale pass, outside any inner try: when it raises, the
\* outer handler returns "".  ocr[2] is the contrast pass and ocr[3] the
\* digit/date pass, each in its own try.
extract_text(ocr) ==
  IF ~ocr[1].ok THEN <<>>
  ELSE LET results  == PassResult(ocr[1]) \o PassResult(ocr[2]) \o PassResult(ocr[3])
           all_text == join(<<"\n">>, results)
       IN  join(<<" ">>, CleanLines(all_text))

\* self.tesseract_config as __init__ sets it
DefaultTesseractConfig == "--psm 11 --oem 3"

\* what the first pass may do when it is run with config: ocr[1] is what it
\* does with the configuration of __init__; with any other configuration it
\* may fail or read anything
FirstPassUnder(config, ocr) ==
  IF config = DefaultTesseractConfig THEN {ocr[1]}
  ELSE {PassFails} \cup {PassReads(ocr[k].text) : k \in 1..3}

\* the body of the outer try: it raises when the conversion or the grayscale
\* pass raises, and returns clean_text otherwise
extract_text_body(ocr) ==
  IF ~ocr[1].ok THEN [raised |-> TRUE, value |-> <<>>]
  ELSE [raised |-> FALSE, value |-> extract_text(ocr)]

\* the exception is passed on to the caller
OuterHandler_Reraise(outcome) == outcome

\* except Exception: return ""
OuterHandler(outcome) ==
  IF outcome.raised THEN [raised |-> FALSE, value |-> <<>>] ELSE outcome

\* the exception of the body reaches the caller
extract_text_call_Unhandled(ocr) == extract_text_body(ocr)

\* what a call of extract_text does: raise or return a value
extract_text_call(ocr) == OuterHandler(extract_text_body(ocr))

\* ------------------------------------------------------------------------
\* predict
\* ------------------------------------------------------------------------
\* 0.75 and 0.4 in 1/10000; 1.2 and 0.95 in 1/100
HighConfidence == 7500

ModerateConfidence == 4000

SpecificBoost == 120

TextConfidenceFactor == 95

TextClassId == 0 - 1

TopK == 5

MaxResults == 5

\* self.categories, for the labels the classifier outcomes below rank
categories ==
  (948 :> <<"G","r","a","n","n","y"," ","S","m","i","t","h">>) @@
  (949 :> <<"s","t","r","a","w","b","e","r","r","y">>) @@
  (950 :> <<"o","r","a","n","g","e">>) @@
  (951 :> <<"l","e","m","o","n">>) @@
  (954 :> <<"b","a","n","a","n","a">>) @@
  (440 :> <<"b","e","e","r"," ","b","o","t","t","l","e">>) @@
  (898 :> <<"w","a","t","e","r"," ","b","o","t","t","l","e">>) @@
  (653 :> <<"m","i","l","k"," ","c","a","n">>) @@
  (930 :> <<"F","r","e","n","c","h"," ","l","o","a","f">>) @@
  (739 :> <<"p","o","t","t","e","r","'","s"," ","w","h","e","e","l">>)

\* class_name.lower().replace(' ', '_').replace("'", '').replace(',', '')
Slug(class_name) ==
  LET low  == lower(class_name)
      kept == SelectSeq(low, LAMBDA c : c # "'" /\ c # ",")
  IN  [i \in 1..Len(kept) |-> IF kept[i] = " " THEN "_" ELSE kept[i]]

\* the gate with the threshold at 0.9
VeryConfident_Threshold90(top_image_confidence) == top_image_confidence > 9000

\* top_image_confidence > 0.75
VeryConfident(top_image_confidence) == top_image_confidence > HighConfidence

\* the specificity check with boost <= 1.2
NotSpecificEnough_Inclusive(product) ==
  product = None \/ product.confidence_boost <= SpecificBoost

\* the specificity check under top_image_confidence > 0.4
NotSpecificEnough(product) ==
  product = None \/ product.confidence_boost < SpecificBoost

\* the product passes whatever the classifier's confidence is
SpecificityGate_Disabled(top_image_confidence, product) == product

\* the specificity gate with top_image_confidence >= 0.4
SpecificityGate_Inclusive(top_image_confidence, product) ==
  IF top_image_confidence >= ModerateConfidence /\ NotSpecificEnough(product)
  THEN None
  ELSE product

\* lines 474-479: the product after the specificity gate
SpecificityGate(top_image_confidence, product) ==
  IF top_image_confidence > ModerateConfidence /\ NotSpecificEnough(product)
  THEN None
  ELSE product

\* the text entry with the boost alone as its confidence
TextResult_NoFactor(product, text) ==
  [class_id          |-> TextClassId,
   class_name        |-> product.name,
   class_description |-> product.description,
   confidence        |-> 100 * product.confidence_boost,
   extracted_text    |-> text,
   identified_by_text |-> TRUE]

\* the entry of the product identified from the text
TextResult(product, text) ==
  [class_id          |-> TextClassId,
   class_name        |-> product.name,
   class_description |-> product.description,
   confidence        |-> TextConfidenceFactor * product.confidence_boost,
   extracted_text    |-> text,
   identified_by_text |-> TRUE]

\* the classifier entry that takes the text whether or not a product was
\* identified from it
VisualResult_AlwaysText(i, indices, probs, text, product) ==
  LET result == [class_id          |-> indices[i],
                 class_name        |-> Slug(categories[indices[i]]),
                 class_description |-> categories[indices[i]],
                 confidence        |-> probs[i]]
  IN  IF i = 1 /\ text # <<>>
      THEN [class_id          |-> result.class_id,
            class_name        |-> result.class_name,
            class_description |-> result.class_description,
            confidence        |-> result.confidence,
            extracted_text    |-> text]
      ELSE result

\* the entry of the i-th classifier result (i from 1, Python's i + 1)
VisualResult(i, indices, probs, text, product) ==
  LET result == [class_id          |-> indices[i],
                 class_name        |-> Slug(categories[indices[i]]),
                 class_description |-> categories[indices[i]],
                 confidence        |-> probs[i]]
  IN  IF i = 1 /\ text # <<>> /\ product = None
      THEN [class_id          |-> result.class_id,
            class_name        |-> result.class_name,
            class_description |-> result.class_description,
            confidence        |-> result.confidence,
            extracted_text    |-> text]
      ELSE result

\* no cut at all
Truncate_None(rs) == rs

\* results[:5]
Truncate(rs) == SubSeq(rs, 1, IF Len(rs) < MaxResults THEN Len(rs) ELSE MaxResults)

\* the text entry inserted after the top classifier entry
AssembleResults_TextSecond(indices, probs, text, product) ==
  LET text_part   == IF product # None THEN <<TextResult(product, text)>> ELSE <<>>
      visual_part == [i \in 1..Len(indices) |->
                        VisualResult(i, indices, probs, text, product)]
  IN  Truncate(<<visual_part[1]>> \o text_part \o Tail(visual_part))

\* the list cut before the text entry is put in front of it
AssembleResults_CutFirst(indices, probs, text, product) ==
  LET text_part   == IF product # None THEN <<TextResult(product, text)>> ELSE <<>>
      visual_part == [i \in 1..Len(indices) |->
                        VisualResult(i, indices, probs, text, product)]
  IN  Truncate(visual_part \o text_part)

\* lines 481-517: the text entry first, then the classifier entries, cut
AssembleResults(indices, probs, text, product) ==
  LET text_part   == IF product # None THEN <<TextResult(product, text)>> ELSE <<>>
      visual_part == [i \in 1..Len(indices) |->
                        VisualResult(i, indices, probs, text, product)]
  IN  Truncate(text_part \o visual_part)

\* ------------------------------------------------------------------------
\* Inputs
\* ------------------------------------------------------------------------
\* the longest text handed to identify_product_from_text, in words
MaxWords == 3

\* 1.0 in the unit of the probabilities
ProbabilityOne == 10000

\* the top-1 probabilities the classifier returns: below, at and above the
\* two thresholds of predict
TopConfidences == {3000, 4000, 4001, 7500, 7501, 9000}

\* torch.topk(probabilities, 5): five probabilities in descending order
\* whose sum is at most 1
Top5For(c) ==
  LET rest == ProbabilityOne - c
      m    == IF c < rest \div 2 THEN c ELSE rest \div 2
  IN  [i \in 1..TopK |-> IF i = 1 THEN c ELSE m \div (2 ^ (i - 2))]

LabelRankings == {<<948, 949, 950, 951, 954>>, <<653, 898, 440, 930, 739>>}

\* raw strings of one OCR pass
RawOutputs ==
  {<<>>,
   <<"u","n","d"," ","d","e","r","\n">>,
   <<" ","M","i","l","c","h"," ","\n">>,
   <<"V","o","l","l","m","i","l","c","h","\n">>,
   <<"H","a","l","l","o"," ","W","e","l","t","\n">>,
   <<"B","i","o","\n","\n"," ","3",".","5","%"," ","\n","\t">>}

PassOutcomes == {PassFails} \cup {PassReads(raw) : raw \in RawOutputs}

NoImage == [fault |-> "absent"]

\* an uploaded image is what the backends do with it: fault "decode" when
\* preprocess_image raises, "model" when the classifier raises
Images ==
  {[fault |-> f] : f \in {"decode", "model"}}
  \cup
  {[fault |-> "none", probs |-> Top5For(c), indices |-> l, ocr |-> <<p1, p2, p3>>] :
     c \in TopConfidences, l \in LabelRankings,
     p1 \in PassOutcomes, p2 \in PassOutcomes, p3 \in PassOutcomes}

\* the words the texts given to identify_product_from_text are made of
Words ==
  {<<"B","i","o">>, <<"V","o","l","l","m","i","l","c","h">>, <<"3",".","5","%">>,
   <<"M","i","l","c","h">>, <<"I","S","B","N">>, <<"u","n","d">>, <<"d","e","r">>,
   <<"H","a","l","l","o">>, <<" ">>}

\* the texts of at most MaxWords words, the words joined by one space
Texts ==
  {join(<<" ">>, ws) : ws \in UNION {[1..n -> Words] : n \in 0..MaxWords}}

\* ------------------------------------------------------------------------
\* State
\* ------------------------------------------------------------------------
VARIABLES
  pc,                  \* position of the request inside predict
  image,               \* image_file of the request
  top5_prob,           \* predict's local top5_prob
  top5_indices,        \* predict's local top5_indices
  extracted_text,      \* predict's local extracted_text
  text_based_product,  \* predict's local text_based_product
  results,             \* the list predict returns
  fn_text,             \* argument of a direct call of a text function
  fn_product,          \* result of identify_product_from_text(fn_text)
  fn_meaningful,       \* result of is_meaningful_text(fn_text)
  fn_title,            \* result of get_best_text_for_title(fn_text)
  fn_ocr,              \* what the OCR backend does in a direct call of extract_text
  fn_extracted,        \* result of that call of extract_text
  invoked,             \* the components the request has invoked so far, in order
  recognizer,          \* the fields of the one ImageRecognizer that predict reads
  fn_legacy,           \* result of the legacy is_meaningful_text(fn_text)
  http_request,        \* the request a handler of app.py is answering
  http_response,       \* the response of that handler
  session,             \* the session of the client, None while it holds no last_prediction
  served,              \* the first image /predict answered with a list, and that list
  reqs                 \* the frames of the predict calls that run at the same time

vars == <<pc, image, top5_prob, top5_indices, extracted_text,
          text_based_product, results, fn_text, fn_product,
          fn_meaningful, fn_title, fn_ocr, fn_extracted, invoked, recognizer,
          fn_legacy, http_request, http_response, session, served, reqs>>

locals == <<top5_prob, top5_indices, extracted_text, text_based_product, results>>

direct == <<fn_text, fn_product, fn_meaningful, fn_title, fn_ocr, fn_extracted>>

\* no direct call of is_meaningful_text, get_best_text_for_title or
\* extract_text was made
NoOtherCalls ==
  /\ fn_meaningful = FALSE
  /\ fn_title = <<>>
  /\ fn_ocr = <<>>
  /\ fn_extracted = <<>>

otherCalls == <<fn_meaningful, fn_title, fn_ocr, fn_extracted>>

\* the state outside the frame of one predict call
outer == <<recognizer, fn_legacy, http_request, http_response, session, served, reqs>>

\* self.tesseract_config and self.categories as __init__ leaves them
LoadedRecognizer ==
  [tesseract_config |-> DefaultTesseractConfig, categories |-> categories]

OuterInit ==
  /\ recognizer = LoadedRecognizer
  /\ fn_legacy = FALSE
  /\ http_request = None
  /\ http_response = None
  /\ session = None
  /\ served = None
  /\ reqs = <<>>

NoLocals ==
  /\ invoked = <<>>
  /\ top5_prob = <<>>
  /\ top5_indices = <<>>
  /\ extracted_text = <<>>
  /\ text_based_product = None
  /\ results = <<>>

Init ==
  /\ pc = "idle"
  /\ image = NoImage
  /\ NoLocals
  /\ fn_text = <<>>
  /\ fn_product = None
  /\ NoOtherCalls
  /\ OuterInit

\* ------------------------------------------------------------------------
\* predict, step by step
\* ------------------------------------------------------------------------
\* the HTTP layer calls image_recognizer.predict(file)
Request(img) ==
  /\ pc = "idle"
  /\ image' = img
  /\ pc' = "classify"
  /\ UNCHANGED <<locals, invoked, direct, outer>>

\* lines 430-447: preprocess_image and the forward pass; either raises
Classify ==
  /\ pc = "classify"
  /\ IF image.fault # "none"
     THEN /\ pc' = "raised"
          /\ UNCHANGED <<top5_prob, top5_indices>>
     ELSE /\ top5_prob' = image.probs
          /\ top5_indices' = image.indices
          /\ pc' = "gate"
  /\ invoked' = Append(invoked, "classifier")
  /\ UNCHANGED <<image, extracted_text, text_based_product, results, direct, outer>>

\* lines 449-460: the high-confidence gate
Gate ==
  /\ pc = "gate"
  /\ IF VeryConfident(top5_prob[1])
     THEN /\ extracted_text' = <<>>
          /\ text_based_product' = None
          /\ pc' = "merge"
     ELSE /\ pc' = "extract"
          /\ UNCHANGED <<extracted_text, text_based_product>>
  /\ UNCHANGED <<image, top5_prob, top5_indices, results, invoked, direct, outer>>

\* extract_text leaves the configuration of its second pass in
\* self.tesseract_config
ExtractText_Reconfigures ==
  /\ pc = "extract"
  /\ \E first \in FirstPassUnder(recognizer.tesseract_config, image.ocr) :
        LET outcome == extract_text_call(<<first, image.ocr[2], image.ocr[3]>>)
        IN  IF outcome.raised
            THEN /\ pc' = "raised"
                 /\ UNCHANGED <<extracted_text, text_based_product>>
            ELSE /\ extracted_text' = outcome.value
                 /\ text_based_product' = None
                 /\ pc' = "filter"
  /\ invoked' = Append(invoked, "extract_text")
  /\ recognizer' = [recognizer EXCEPT !.tesseract_config = "--psm 6 --oem 3"]
  /\ UNCHANGED <<image, top5_prob, top5_indices, results, direct, fn_legacy,
                 http_request, http_response, session, served, reqs>>

\* lines 463-467: extract_text reads self.tesseract_config for its first pass
ExtractText ==
  /\ pc = "extract"
  /\ \E first \in FirstPassUnder(recognizer.tesseract_config, image.ocr) :
        LET outcome == extract_text_call(<<first, image.ocr[2], image.ocr[3]>>)
        IN  IF outcome.raised
            THEN /\ pc' = "raised"
                 /\ UNCHANGED <<extracted_text, text_based_product>>
            ELSE /\ extracted_text' = outcome.value
                 /\ text_based_product' = None
                 /\ pc' = "filter"
  /\ invoked' = Append(invoked, "extract_text")
  /\ UNCHANGED <<image, top5_prob, top5_indices, results, direct, outer>>

\* the identifier is called whatever the filter says
Filter_AlwaysIdentify ==
  /\ pc = "filter"
  /\ pc' = "identify"
  /\ invoked' = Append(invoked, "is_meaningful_text")
  /\ UNCHANGED <<image, locals, direct, outer>>

\* line 468
Filter ==
  /\ pc = "filter"
  /\ pc' = IF is_meaningful_text(extracted_text) THEN "identify" ELSE "merge"
  /\ invoked' = Append(invoked, "is_meaningful_text")
  /\ UNCHANGED <<image, locals, direct, outer>>

\* line 470
Identify ==
  /\ pc = "identify"
  /\ text_based_product' = identify_product_from_text(extracted_text)
  /\ pc' = "specificity"
  /\ invoked' = Append(invoked, "identify_product_from_text")
  /\ UNCHANGED <<image, top5_prob, top5_indices, extracted_text, results, direct, outer>>

\* lines 472-479
Specificity ==
  /\ pc = "specificity"
  /\ text_based_product' = SpecificityGate(top5_prob[1], text_based_product)
  /\ pc' = "merge"
  /\ UNCHANGED <<image, top5_prob, top5_indices, extracted_text, results,
                 invoked, direct, outer>>

\* lines 481-517
Merge ==
  /\ pc = "merge"
  /\ results' = AssembleResults(top5_indices, top5_prob, extracted_text,
                                text_based_product)
  /\ pc' = "done"
  /\ invoked' = Append(invoked, "results")
  /\ UNCHANGED <<image, top5_prob, top5_indices, extracted_text,
                 text_based_product, direct, outer>>

\* the call is over: the list was returned or the exception propagated
Return ==
  /\ pc \in {"done", "raised"}
  /\ pc' = "idle"
  /\ image' = NoImage
  /\ invoked' = <<>>
  /\ top5_prob' = <<>>
  /\ top5_indices' = <<>>
  /\ extracted_text' = <<>>
  /\ text_based_product' = None
  /\ results' = <<>>
  /\ UNCHANGED <<direct, outer>>

Next ==
  \/ \E img \in Images : Request(img)
  \/ Classify
  \/ Gate
  \/ ExtractText
  \/ Filter
  \/ Identify
  \/ Specificity
  \/ Merge
  \/ Return

Spec == Init /\ [][Next]_vars

\* ------------------------------------------------------------------------
\* identify_product_from_text, called directly on a text
\* ------------------------------------------------------------------------
InitIdentify ==
  /\ pc = "call"
  /\ image = NoImage
  /\ NoLocals
  /\ fn_text \in Texts
  /\ fn_product = None
  /\ NoOtherCalls
  /\ OuterInit

CallIdentify ==
  /\ pc = "call"
  /\ fn_product' = identify_product_from_text(fn_text)
  /\ pc' = "returned"
  /\ UNCHANGED <<image, locals, fn_text, otherCalls, invoked, outer>>

NextIdentify == CallIdentify

SpecIdentify == InitIdentify /\ [][NextIdentify]_vars

\* ------------------------------------------------------------------------
\* is_meaningful_text, called directly on a text
\* ------------------------------------------------------------------------
\* the phrases the texts given to is_meaningful_text are made of
MeaningfulPhrases ==
  {<<"a","b">>,
   <<"W","e","i","z","e","n","m","e","h","l">>,
   <<"T","y","p","e"," ","4","0","5">>,
   <<"T","y","p"," ","4","0","5">>,
   <<"M","i","l","c","h">>,
   <<"m","i","l","c","h">>,
   <<"M","I","L","C","H">>,
   <<"u","n","d">>,
   <<"2"," ","d","e","r">>,
   <<"u","n","d"," ","1",",","5","€">>,
   <<"L","e","b","e","n","s","m","i","t","t","e","l">>,
   <<"w","w","w",".","s","h","o","p",".","d","e">>,
   <<"I","S","B","N"," ","3","-","1">>}

MeaningfulTexts ==
  {join(<<" ">>, ws) : ws \in UNION {[1..n -> MeaningfulPhrases] : n \in 0..MaxWords}}

InitMeaningful ==
  /\ pc = "call"
  /\ image = NoImage
  /\ NoLocals
  /\ fn_text \in MeaningfulTexts
  /\ fn_product = None
  /\ NoOtherCalls
  /\ OuterInit

CallMeaningful ==
  /\ pc = "call"
  /\ fn_meaningful' = is_meaningful_text(fn_text)
  /\ pc' = "returned"
  /\ UNCHANGED <<image, locals, fn_text, fn_product, fn_title, fn_ocr, fn_extracted, invoked, outer>>

NextMeaningful == CallMeaningful

SpecMeaningful == InitMeaningful /\ [][NextMeaningful]_vars

\* ------------------------------------------------------------------------
\* get_best_text_for_title, called directly on a text
\* ------------------------------------------------------------------------
\* the phrases the texts given to get_best_text_for_title are made of
TitlePhrases ==
  {<<"x","x">>,
   <<"y","y","y","y">>,
   <<"y","y","y","y"," ","y","y","y","y">>,
   <<"z","z","z","z","z","z">>,
   <<"T","e","e">>,
   <<"1","2","T","e","e","3","4">>,
   <<"T","Y","P"," ","4","0","5">>,
   <<"T","y","p"," ","4","0","5">>,
   <<"T","y","p","e"," ","4","0","5">>,
   <<"k","g">>,
   <<"M","i","l","c","h">>,
   <<"Z","u","c","k","e","r">>,
   <<"1","2","3">>}

TitleTexts ==
  {join(<<" ">>, ws) : ws \in UNION {[1..n -> TitlePhrases] : n \in 0..MaxWords}}

InitTitle ==
  /\ pc = "call"
  /\ image = NoImage
  /\ NoLocals
  /\ fn_text \in TitleTexts
  /\ fn_product = None
  /\ NoOtherCalls
  /\ OuterInit

CallTitle ==
  /\ pc = "call"
  /\ fn_title' = get_best_text_for_title(fn_text)
  /\ pc' = "returned"
  /\ UNCHANGED <<image, locals, fn_text, fn_product, fn_meaningful, fn_ocr, fn_extracted, invoked, outer>>

NextTitle == CallTitle

SpecTitle == InitTitle /\ [][NextTitle]_vars

\* ------------------------------------------------------------------------
\* extract_text, called directly on an image
\* ------------------------------------------------------------------------
\* what a pass can read: the raw outputs of the images above, a line with a
\* double space inside and a blank line
ExtractRawOutputs ==
  RawOutputs \cup {<<"H","a","l","l","o"," "," ","W","e","l","t","\n">>,
                   <<" ","\n">>}

ExtractOutcomes == {PassFails} \cup {PassReads(raw) : raw \in ExtractRawOutputs}

InitExtract ==
  /\ pc = "call"
  /\ image = NoImage
  /\ NoLocals
  /\ fn_text = <<>>
  /\ fn_product = None
  /\ fn_meaningful = FALSE
  /\ fn_title = <<>>
  /\ fn_ocr \in [1..3 -> ExtractOutcomes]
  /\ fn_extracted = <<>>
  /\ OuterInit

CallExtract ==
  /\ pc = "call"
  /\ LET outcome == extract_text_call(fn_ocr)
     IN  /\ pc' = IF outcome.raised THEN "raised" ELSE "returned"
         /\ fn_extracted' = outcome.value
  /\ UNCHANGED <<image, locals, fn_text, fn_product, fn_meaningful, fn_title, fn_ocr, invoked, outer>>

NextExtract == CallExtract

SpecExtract == InitExtract /\ [][NextExtract]_vars

\* ------------------------------------------------------------------------
\* the two is_meaningful_text, strict and legacy, called on the same text
\* ------------------------------------------------------------------------
ProfilePhrases ==
  {<<"M","i","l","c","h">>,
   <<"1",",","5","€">>,
   <<"1","2","3","4","5","6">>,
   <<"u","n","d">>,
   <<"d","e","r">>,
   <<"L","e","b","e","n","s","m","i","t","t","e","l">>,
   <<"w","w","w",".","s","h","o","p",".","d","e">>,
   <<"I","S","B","N"," ","3","-","1">>,
   <<"a","b">>,
   <<"T","y","p"," ","4","0","5">>,
   <<"W","e","i","z","e","n","m","e","h","l">>,
   <<"x","1">>}

ProfileTexts ==
  {join(<<" ">>, ws) : ws \in UNION {[1..n -> ProfilePhrases] : n \in 0..MaxWords}}

InitProfiles ==
  /\ pc = "call"
  /\ image = NoImage
  /\ NoLocals
  /\ fn_text \in ProfileTexts
  /\ fn_product = None
  /\ NoOtherCalls
  /\ OuterInit

CallProfiles ==
  /\ pc = "call"
  /\ fn_meaningful' = is_meaningful_text(fn_text)
  /\ fn_legacy' = is_meaningful_text_legacy(fn_text)
  /\ pc' = "returned"
  /\ UNCHANGED <<image, locals, fn_text, fn_product, fn_title, fn_ocr, fn_extracted,
                 invoked, recognizer, http_request, http_response, session, served, reqs>>

NextProfiles == CallProfiles

SpecProfiles == InitProfiles /\ [][NextProfiles]_vars

\* ------------------------------------------------------------------------
\* app.py: check_expiry
\* ------------------------------------------------------------------------
DairyWords == {<<"m","i","l","c","h">>, <<"j","o","g","h","u","r","t">>, <<"k","ä","s","e">>, <<"q","u","a","r","k">>, <<"s","a","h","n","e">>}

EggWords == {<<"e","i">>, <<"e","i","e","r">>}

MeatWords == {<<"f","l","e","i","s","c","h">>, <<"w","u","r","s","t">>, <<"s","c","h","i","n","k","e","n">>, <<"h","ä","h","n","c","h","e","n">>, <<"h","u","h","n">>}

FishWords == {<<"f","i","s","c","h">>, <<"l","a","c","h","s">>, <<"t","h","u","n","f","i","s","c","h">>, <<"f","o","r","e","l","l","e">>}

DryGoodWords == {<<"m","e","h","l">>, <<"r","e","i","s">>, <<"n","u","d","e","l">>, <<"p","a","s","t","a">>, <<"z","u","c","k","e","r">>, <<"s","a","l","z">>}

CannedWords == {<<"k","o","n","s","e","r","v","e">>, <<"d","o","s","e">>, <<"e","i","n","g","e","m","a","c","h","t">>}

OilWords == {<<"ö","l">>, <<"f","e","t","t">>}

\* any(item in product_lower for item in items)
AnyIn(items, product_lower) == \E item \in items : Contains(product_lower, item)

\* lines 434-441: the default answer
ExpiryDefault(product, days_expired) ==
  [status         |-> 200,
   product        |-> product,
   days_expired   |-> days_expired,
   is_safe        |-> FALSE,
   recommendation |-> "entsorgen"]

\* lines 457-505: the branch of the product's category
ExpiryByCategory(result, product_lower, days_expired) ==
  LET is_dairy    == AnyIn(DairyWords, product_lower)
      is_egg      == AnyIn(EggWords, product_lower)
      is_meat     == AnyIn(MeatWords, product_lower)
      is_fish     == AnyIn(FishWords, product_lower)
      is_dry_good == AnyIn(DryGoodWords, product_lower)
      is_canned   == AnyIn(CannedWords, product_lower)
      is_oil      == AnyIn(OilWords, product_lower)
  IN  IF is_dry_good
      THEN [result EXCEPT !.is_safe = TRUE, !.recommendation = "Trockene Lebensmittel"]
      ELSE IF is_canned
      THEN [result EXCEPT !.is_safe = TRUE, !.recommendation = "Konserven"]
      ELSE IF is_oil
      THEN [result EXCEPT !.is_safe = (days_expired <= 90), !.recommendation = "Öle"]
      ELSE IF is_dairy /\ days_expired <= 7
      THEN IF Contains(product_lower, <<"k","ä","s","e">>)
           THEN [result EXCEPT !.is_safe = TRUE, !.recommendation = "Hartkäse"]
           ELSE [result EXCEPT !.is_safe = TRUE, !.recommendation = "Milchprodukte"]
      ELSE IF is_egg /\ days_expired <= 7
      THEN [result EXCEPT !.is_safe = TRUE, !.recommendation = "Eier"]
      ELSE IF (~is_meat /\ ~is_fish) /\ days_expired <= 14
      THEN [result EXCEPT !.is_safe = TRUE, !.recommendation = "Dieses Produkt"]
      ELSE result

\* the answer of the category stands for meat and fish too
MeatFishOverride_Skipped(result, product_lower) == result

\* lines 508-514: never for meat or fish
MeatFishOverride(result, product_lower) ==
  IF AnyIn(MeatWords, product_lower) \/ AnyIn(FishWords, product_lower)
  THEN [result EXCEPT !.is_safe = FALSE, !.recommendation = "Fleisch und Fisch"]
  ELSE result

\* the handler of /check-expiry; a request without a JSON body makes
\* data.get raise, which the handler answers with status 500
check_expiry(request) ==
  IF ~request.json THEN [status |-> 500]
  ELSE LET product      == request.product
           days_expired == request.daysExpired
           result       == ExpiryDefault(product, days_expired)
       IN  IF 0 < days_expired /\ days_expired <= 30
           THEN MeatFishOverride(ExpiryByCategory(result, lower(product), days_expired),
                                 lower(product))
           ELSE result

\* the product names and the numbers of days of the requests
ExpiryProducts ==
  {<<"R","e","i","s"," ","m","i","t"," ","H","u","h","n">>,
   <<"T","h","u","n","f","i","s","c","h"," ","D","o","s","e">>,
   <<"L","a","c","h","s"," ","i","n"," ","Ö","l">>,
   <<"M","i","l","c","h">>,
   <<"K","ä","s","e">>,
   <<"E","i","e","r">>,
   <<"M","e","h","l">>,
   <<"O","l","i","v","e","n","ö","l">>,
   <<"A","p","f","e","l">>,
   <<"H","Ä","H","N","C","H","E","N">>,
   <<"W","u","r","s","t">>,
   <<"F","o","r","e","l","l","e">>,
   <<"J","o","g","h","u","r","t">>,
   <<"S","c","h","i","n","k","e","n">>}

ExpiryDays == {0 - 1, 0, 1, 7, 8, 14, 15, 30, 31}

ExpiryRequests ==
  {[json |-> FALSE]}
  \cup {[json |-> TRUE, product |-> product, daysExpired |-> d] :
          product \in ExpiryProducts, d \in ExpiryDays}

InitExpiry ==
  /\ pc = "call"
  /\ image = NoImage
  /\ NoLocals
  /\ fn_text = <<>>
  /\ fn_product = None
  /\ NoOtherCalls
  /\ recognizer = LoadedRecognizer
  /\ fn_legacy = FALSE
  /\ http_request \in ExpiryRequests
  /\ http_response = None
  /\ session = None
  /\ served = None
  /\ reqs = <<>>

CallExpiry ==
  /\ pc = "call"
  /\ http_response' = check_expiry(http_request)
  /\ pc' = "returned"
  /\ UNCHANGED <<image, locals, invoked, direct, recognizer, fn_legacy, http_request, session,
                 served, reqs>>

NextExpiry == CallExpiry

SpecExpiry == InitExpiry /\ [][NextExpiry]_vars

\* ------------------------------------------------------------------------
\* app.py: check_leftovers
\* ------------------------------------------------------------------------
RequiredFields == {"foodType", "foodName", "daysOld", "storageType"}

\* the three kinds of answer with status 200
Usable(summary) ==
  [status |-> 200, is_safe |-> TRUE, header_class |-> "bg-success text-white",
   summary |-> summary]

UsableWithCare ==
  [status |-> 200, is_safe |-> TRUE, header_class |-> "bg-warning text-dark",
   summary |-> "Mit Vorsicht verwendbar"]

\* is_safe False: lines 1225-1233 and 1424-1428
NotUsable ==
  [status |-> 200, is_safe |-> FALSE, header_class |-> "bg-danger text-white",
   summary |-> "Nicht mehr verwertbar"]

\* lines 1246-1422: the answer for the type, age and storage of the food
LeftoverVerdict(food_type, food_name, days_old, storage_type, notes) ==
  LET cooled == storage_type = "kuehlschrank"
  IN  IF food_type = "obst"
      THEN IF days_old <= 7 THEN Usable("Noch verwendbar")
           ELSE IF days_old <= 14 THEN UsableWithCare
           ELSE NotUsable
      ELSE IF food_type = "brot"
      THEN IF days_old <= 5 THEN Usable("Noch verwendbar")
           ELSE IF days_old <= 14 /\ ~Contains(lower(notes), <<"s","c","h","i","m","m","e","l">>)
                THEN UsableWithCare
           ELSE NotUsable
      ELSE IF food_type = "milch"
      THEN IF days_old <= 3 /\ cooled THEN Usable("Noch verwendbar")
           ELSE IF \/ (days_old <= 7 /\ cooled /\ Contains(lower(food_name), <<"j","o","g","h","u","r","t">>))
                   \/ Contains(lower(food_name), <<"k","ä","s","e">>)
                THEN UsableWithCare
           ELSE NotUsable
      ELSE IF food_type = "fleisch" \/ food_type = "fisch"
      THEN IF days_old <= 1 /\ cooled THEN UsableWithCare ELSE NotUsable
      ELSE IF food_type = "gekocht"
      THEN IF days_old <= 2 /\ cooled THEN Usable("Noch verwendbar")
           ELSE IF days_old <= 4 /\ cooled THEN UsableWithCare
           ELSE NotUsable
      ELSE IF food_type = "konserven"
      THEN IF days_old <= 3 /\ cooled THEN Usable("Noch verwendbar")
           ELSE IF days_old <= 5 /\ cooled THEN UsableWithCare
           ELSE NotUsable
      ELSE IF days_old <= 3 /\ cooled THEN Usable("Wahrscheinlich noch verwendbar")
           ELSE IF days_old <= 5 /\ cooled THEN UsableWithCare
           ELSE NotUsable

\* the handler of /check-leftovers: 400 when a required field is missing,
\* 500 when int(data['daysOld']) raises
check_leftovers(data) ==
  IF ~(RequiredFields \subseteq DOMAIN data) THEN [status |-> 400]
  ELSE IF ~data.daysOld.digits
       THEN [status |-> 500, is_safe |-> FALSE,
             header_class |-> "bg-danger text-white",
             summary |-> "Fehler bei der Prüfung"]
  ELSE IF data.signsSpoilage THEN NotUsable
  ELSE LeftoverVerdict(data.foodType, data.foodName, data.daysOld.value,
                       data.storageType, data.notes)

FoodTypes ==
  {"obst", "brot", "milch", "fleisch", "fisch", "gekocht", "konserven", "sonstiges"}

FoodNames == {<<"M","i","l","c","h">>, <<"J","o","g","h","u","r","t">>, <<"K","ä","s","e">>, <<"A","p","f","e","l">>}

\* daysOld as sent: a number, or something int() rejects
DaysOldValues ==
  {[digits |-> FALSE]}
  \cup {[digits |-> TRUE, value |-> d] : d \in {1, 2, 3, 4, 5, 6, 7, 8, 14, 15}}

StorageTypes == {"kuehlschrank", "raumtemperatur"}

LeftoverRequests ==
  {[foodType |-> "milch", foodName |-> <<"M","i","l","c","h">>, daysOld |-> [digits |-> TRUE, value |-> 1]]}
  \cup {[foodType |-> t, foodName |-> n, daysOld |-> d, storageType |-> s,
         signsSpoilage |-> b, notes |-> m] :
          t \in FoodTypes, n \in FoodNames, d \in DaysOldValues, s \in StorageTypes,
          b \in BOOLEAN, m \in {<<>>, <<"e","t","w","a","s"," ","S","c","h","i","m","m","e","l">>}}

InitLeftovers ==
  /\ pc = "call"
  /\ image = NoImage
  /\ NoLocals
  /\ fn_text = <<>>
  /\ fn_product = None
  /\ NoOtherCalls
  /\ recognizer = LoadedRecognizer
  /\ fn_legacy = FALSE
  /\ http_request \in LeftoverRequests
  /\ http_response = None
  /\ session = None
  /\ served = None
  /\ reqs = <<>>

CallLeftovers ==
  /\ pc = "call"
  /\ http_response' = check_leftovers(http_request)
  /\ pc' = "returned"
  /\ UNCHANGED <<image, locals, invoked, direct, recognizer, fn_legacy, http_request, session,
                 served, reqs>>

NextLeftovers == CallLeftovers

SpecLeftovers == InitLeftovers /\ [][NextLeftovers]_vars

\* ------------------------------------------------------------------------
\* app.py: the handler of /predict
\* ------------------------------------------------------------------------
\* lines 63-64 and 69-71: session['last_prediction'] after the call
SessionAfter_ClearedOnError(last, raised, predictions) ==
  IF raised THEN None
  ELSE IF Len(predictions) > 0 THEN [last_prediction |-> predictions[1].class_description]
  ELSE last

\* lines 63-64 and 69-71: session['last_prediction'] after the call
SessionAfter(last, raised, predictions) ==
  IF ~raised /\ Len(predictions) > 0 THEN [last_prediction |-> predictions[1].class_description]
  ELSE last

\* lines 67 and 69-71: the response after the call
PredictResponse(raised, predictions) ==
  IF raised THEN [status |-> 500, error |-> "Fehler bei der Bildverarbeitung"]
  ELSE [status |-> 200, predictions |-> predictions]

\* lines 43-52: no file part, or no file selected
RejectedUpload(kind) ==
  [status |-> 400,
   error  |-> IF kind = "nofile" THEN "Kein Bild hochgeladen" ELSE "Kein Bild ausgewählt"]

AppRanking == CHOOSE l \in LabelRankings : TRUE

AppOcr ==
  {<<PassFails, PassFails, PassFails>>,
   <<PassReads(<<"u","n","d"," ","d","e","r","\n">>), PassReads(<<" ","M","i","l","c","h"," ","\n">>), PassFails>>,
   <<PassReads(<<"H","a","l","l","o"," ","W","e","l","t","\n">>), PassFails, PassReads(<<"u","n","d"," ","d","e","r","\n">>)>>}

\* the uploads of the client
AppImages ==
  {[fault |-> f] : f \in {"decode", "model"}}
  \cup {[fault |-> "none", probs |-> Top5For(c), indices |-> AppRanking, ocr |-> o] :
          c \in {3000, 4001, 7501}, o \in AppOcr}

AppRequests ==
  {[kind |-> k] : k \in {"nofile", "noname"}}
  \cup {[kind |-> "image", image |-> img] : img \in AppImages}

\* lines 42-59: the handler up to the call of image_recognizer.predict
AppReceive(req) ==
  /\ pc = "idle"
  /\ http_request' = req
  /\ IF req.kind = "image"
     THEN /\ image' = req.image
          /\ pc' = "classify"
          /\ http_response' = None
     ELSE /\ http_response' = RejectedUpload(req.kind)
          /\ UNCHANGED <<pc, image>>
  /\ UNCHANGED <<locals, invoked, direct, recognizer, fn_legacy, session, served, reqs>>

\* lines 60-71: the handler after predict returned or raised
AppRespond ==
  /\ pc \in {"done", "raised"}
  /\ session' = SessionAfter(session, pc = "raised", results)
  /\ http_response' = PredictResponse(pc = "raised", results)
  /\ served' = IF pc = "done" /\ served = None
               THEN [image |-> image, predictions |-> results]
               ELSE served
  /\ pc' = "idle"
  /\ image' = NoImage
  /\ invoked' = <<>>
  /\ top5_prob' = <<>>
  /\ top5_indices' = <<>>
  /\ extracted_text' = <<>>
  /\ text_based_product' = None
  /\ results' = <<>>
  /\ UNCHANGED <<direct, recognizer, fn_legacy, http_request, reqs>>

NextApp ==
  \/ \E req \in AppRequests : AppReceive(req)
  \/ Classify
  \/ Gate
  \/ ExtractText
  \/ Filter
  \/ Identify
  \/ Specificity
  \/ Merge
  \/ AppRespond

SpecApp == Init /\ [][NextApp]_vars

\* ------------------------------------------------------------------------
\* predict calls that run at the same time on the one shared recognizer
\* ------------------------------------------------------------------------
\* app.py line 18 builds one ImageRecognizer; every request calls its predict
Requests == {1, 2}

\* the local variables of a predict call that has not started
IdleFrame ==
  [pc |-> "idle", image |-> NoImage, top5_prob |-> <<>>, top5_indices |-> <<>>,
   extracted_text |-> <<>>, text_based_product |-> None, results |-> <<>>]

\* line 420: predict is entered with its own image
StartFrame(img) == [IdleFrame EXCEPT !.pc = "classify", !.image = img]

\* one step of predict on the locals f of its call, reading the recognizer rec
FrameStep(f, rec) ==
  CASE f.pc = "classify" ->
         {IF f.image.fault # "none"
          THEN [f EXCEPT !.pc = "raised"]
          ELSE [f EXCEPT !.top5_prob = f.image.probs,
                         !.top5_indices = f.image.indices,
                         !.pc = "gate"]}
    [] f.pc = "gate" ->
         {IF VeryConfident(f.top5_prob[1])
          THEN [f EXCEPT !.extracted_text = <<>>,
                         !.text_based_product = None,
                         !.pc = "merge"]
          ELSE [f EXCEPT !.pc = "extract"]}
    [] f.pc = "extract" ->
         {LET outcome == extract_text_call(<<first, f.image.ocr[2], f.image.ocr[3]>>)
          IN  IF outcome.raised
              THEN [f EXCEPT !.pc = "raised"]
              ELSE [f EXCEPT !.extracted_text = outcome.value,
                             !.text_based_product = None,
                             !.pc = "filter"] :
            first \in FirstPassUnder(rec.tesseract_config, f.image.ocr)}
    [] f.pc = "filter" ->
         {[f EXCEPT !.pc = IF is_meaningful_text(f.extracted_text)
                           THEN "identify" ELSE "merge"]}
    [] f.pc = "identify" ->
         {[f EXCEPT !.text_based_product = identify_product_from_text(f.extracted_text),
                    !.pc = "specificity"]}
    [] f.pc = "specificity" ->
         {[f EXCEPT !.text_based_product =
                      SpecificityGate(f.top5_prob[1], f.text_based_product),
                    !.pc = "merge"]}
    [] f.pc = "merge" ->
         {[f EXCEPT !.results = AssembleResults(f.top5_indices, f.top5_prob,
                                                f.extracted_text,
                                                f.text_based_product),
                    !.pc = "done"]}
    [] OTHER -> {}

\* the frame a call ends in when no other call runs
RECURSIVE RunAlone(_)
RunAlone(f) ==
  IF FrameStep(f, LoadedRecognizer) = {} THEN f
  ELSE RunAlone(CHOOSE g \in FrameStep(f, LoadedRecognizer) : TRUE)

\* predict(img) called alone: it raises, or it returns its list
predict(img) ==
  LET last == RunAlone(StartFrame(img))
  IN  [raised |-> last.pc = "raised", results |-> last.results]

ConcurrentImages == AppImages

InitConcurrent ==
  /\ pc = "idle"
  /\ image = NoImage
  /\ NoLocals
  /\ fn_text = <<>>
  /\ fn_product = None
  /\ NoOtherCalls
  /\ recognizer = LoadedRecognizer
  /\ fn_legacy = FALSE
  /\ http_request = None
  /\ http_response = None
  /\ session = None
  /\ served = None
  /\ reqs = [r \in Requests |-> IdleFrame]

single == <<pc, image, locals, invoked, direct, fn_legacy, http_request,
            http_response, session, served>>

\* a request thread enters predict
ConcurrentRequest(r, img) ==
  /\ reqs[r].pc = "idle"
  /\ reqs' = [reqs EXCEPT ![r] = StartFrame(img)]
  /\ UNCHANGED <<single, recognizer>>

\* the text a call extracted is kept in a field of the shared recognizer, so
\* every call in flight sees the text of the call that extracted last
Step_SharedText(r) ==
  /\ \E g \in FrameStep(reqs[r], recognizer) :
        reqs' = [q \in Requests |->
                   IF q = r THEN g
                   ELSE IF reqs[q].pc \in {"idle", "classify", "gate", "extract"}
                        THEN reqs[q]
                        ELSE [reqs[q] EXCEPT !.extracted_text = g.extracted_text]]
  /\ UNCHANGED <<single, recognizer>>

\* lines 420-521: the thread of request r takes the next step of its call;
\* the step writes the locals of that call and nothing else
Step(r) ==
  /\ \E g \in FrameStep(reqs[r], recognizer) :
        reqs' = [reqs EXCEPT ![r] = g]
  /\ UNCHANGED <<single, recognizer>>

\* the call of request r is over
ConcurrentReturn(r) ==
  /\ reqs[r].pc \in {"done", "raised"}
  /\ reqs' = [reqs EXCEPT ![r] = IdleFrame]
  /\ UNCHANGED <<single, recognizer>>

NextConcurrent ==
  \/ \E r \in Requests, img \in ConcurrentImages : ConcurrentRequest(r, img)
  \/ \E r \in Requests : Step(r)
  \/ \E r \in Requests : ConcurrentReturn(r)

SpecConcurrent == InitConcurrent /\ [][NextConcurrent]_vars

\* ------------------------------------------------------------------------
\* Properties of the list predict returns
\* ------------------------------------------------------------------------
Returned == pc = "done"

\* an entry that stands for a product identified from the text
IsTextEntry(e) ==
  \/ e.class_id = 0 - 1
  \/ "identified_by_text" \in DOMAIN e /\ e.identified_by_text

HasExtractedText(e) == "extracted_text" \in DOMAIN e

\* e is the entry of the i-th classifier result of this request
IsVisualEntry(e, i) ==
  /\ ~IsTextEntry(e)
  /\ e.class_id = image.indices[i]
  /\ e.class_description = categories[image.indices[i]]
  /\ e.confidence = image.probs[i]

\* e is the text entry of product p
IsTextEntryOf(e, p) ==
  /\ IsTextEntry(e)
  /\ e.class_name = p.name
  /\ e.class_description = p.description

\* C1: when predict returns and the top visual confidence is above 0.75,
\* no entry of the list is text-based and no entry carries extracted_text.
C1_HighConfidenceNoText ==
  (Returned /\ image.probs[1] > 7500) =>
     \A i \in 1..Len(results) :
        ~IsTextEntry(results[i]) /\ ~HasExtractedText(results[i])

C1_Witness ==
  /\ Returned
  /\ image.probs[1] = 7501
  /\ extract_text(image.ocr) # <<>>
  /\ Len(results) = 5

\* C2: in every returned list a text-based entry is at index 0 (the first
\* entry), has class_id -1 and identified_by_text true; the entries at
\* index 1..4 are not text-based.
C2_TextEntryFirst ==
  Returned =>
     \A i \in 1..Len(results) :
        IsTextEntry(results[i]) =>
           /\ i = 1
           /\ results[i].class_id = 0 - 1
           /\ "identified_by_text" \in DOMAIN results[i]
           /\ results[i].identified_by_text = TRUE

C2_Witness ==
  /\ Returned
  /\ IsTextEntry(results[1])
  /\ \A i \in 2..Len(results) : ~IsTextEntry(results[i])

\* C3: every returned list has at least 1 and at most 5 entries.
C3_LengthBounds == Returned => (1 <= Len(results) /\ Len(results) <= 5)

C3_Witness ==
  /\ Returned
  /\ text_based_product # None
  /\ Len(results) = 5

\* C4: the truncation drops trailing visual entries only: with a text entry
\* the list is the text entry followed by the first four classifier results
\* in classifier order, without one it is the five classifier results in
\* classifier order.
C4_TruncationKeepsText ==
  Returned =>
     /\ Len(results) = 5
     /\ IF text_based_product # None
        THEN /\ IsTextEntryOf(results[1], text_based_product)
             /\ \A i \in 2..5 : IsVisualEntry(results[i], i - 1)
        ELSE \A i \in 1..5 : IsVisualEntry(results[i], i)

C4_Witness ==
  /\ Returned
  /\ text_based_product # None
  /\ IsTextEntry(results[1])
  /\ results[5].class_id = image.indices[4]

\* C5: specificity gate.  For a product p identified from the text of a
\* request (top confidence at most 0.75, text accepted by the filter):
\* p is discarded and the list has no text entry when topConf > 0.4 and
\* p's boost < 1.2; p is kept, as the first entry, when its boost is 1.2 or
\* more or when topConf is 0.4 or less.
C5_SpecificityGate ==
  (Returned /\ image.probs[1] <= 7500 /\ is_meaningful_text(extract_text(image.ocr))) =>
     LET p == identify_product_from_text(extract_text(image.ocr))
     IN  p # None =>
           IF image.probs[1] > 4000 /\ p.confidence_boost < 120
           THEN \A i \in 1..Len(results) : ~IsTextEntry(results[i])
           ELSE IsTextEntryOf(results[1], p)

C5_Witness ==
  /\ Returned
  /\ image.probs[1] = 4001
  /\ is_meaningful_text(extract_text(image.ocr))
  /\ identify_product_from_text(extract_text(image.ocr)) # None
  /\ identify_product_from_text(extract_text(image.ocr)).confidence_boost = 85
  /\ \A i \in 1..Len(results) : ~IsTextEntry(results[i])

\* C6 as claimed: whenever topConf <= 0.75 and identify_product_from_text
\* returns, for the extracted text, a product the specificity gate does not
\* discard, the first entry of the list is the text entry of that product.
C6_Original ==
  (Returned /\ image.probs[1] <= 7500) =>
     LET p == identify_product_from_text(extract_text(image.ocr))
     IN  (p # None /\ ~(image.probs[1] > 4000 /\ p.confidence_boost < 120)) =>
            IsTextEntryOf(results[1], p)

\* C6 amended: the same, for the extracted texts is_meaningful_text accepts;
\* the Product Identifier runs on no other text.
C6_IdentifierAfterFilter ==
  (Returned /\ image.probs[1] <= 7500) =>
     LET t == extract_text(image.ocr)
         p == identify_product_from_text(t)
     IN  /\ (/\ is_meaningful_text(t)
             /\ p # None
             /\ ~(image.probs[1] > 4000 /\ p.confidence_boost < 120))
               => IsTextEntryOf(results[1], p) /\ results[1].extracted_text = t
         /\ ~is_meaningful_text(t) =>
               \A i \in 1..Len(results) : ~IsTextEntry(results[i])

C6_Witness ==
  /\ Returned
  /\ image.probs[1] = 4000
  /\ is_meaningful_text(extract_text(image.ocr))
  /\ identify_product_from_text(extract_text(image.ocr)) # None
  /\ identify_product_from_text(extract_text(image.ocr)).confidence_boost = 85
  /\ IsTextEntry(results[1])

\* C7: a text entry has confidence 0.95 x the confidence_boost of the
\* product identified from the text of the request, and carries that text
\* as extracted_text.
C7_TextConfidence ==
  Returned =>
     \A i \in 1..Len(results) :
        IsTextEntry(results[i]) =>
           /\ results[i].confidence =
                95 * identify_product_from_text(extract_text(image.ocr)).confidence_boost
           /\ HasExtractedText(results[i])
           /\ results[i].extracted_text = extract_text(image.ocr)

C7_Witness ==
  /\ Returned
  /\ IsTextEntry(results[1])
  /\ results[1].confidence = 11400
  /\ results[1].extracted_text # <<>>

\* C8: a visual entry carries extracted_text only if it is the first
\* visual entry and the list has no text entry; at most one entry carries
\* extracted_text, and it is the first entry of the list.
C8_ExtractedTextOnce ==
  Returned =>
     /\ \A i \in 1..Len(results) :
           (~IsTextEntry(results[i]) /\ HasExtractedText(results[i])) =>
              /\ IsVisualEntry(results[i], 1)
              /\ \A j \in 1..Len(results) : ~IsTextEntry(results[j])
     /\ \A i \in 1..Len(results) : HasExtractedText(results[i]) => i = 1

C8_Witness ==
  /\ Returned
  /\ ~IsTextEntry(results[1])
  /\ HasExtractedText(results[1])
  /\ results[1].extracted_text = extract_text(image.ocr)

\* ------------------------------------------------------------------------
\* Properties of identify_product_from_text
\* ------------------------------------------------------------------------
Identified == pc = "returned"

\* the registry keys that occur in text, letter case ignored
OccurringKeys(text) ==
  {k \in 1..Len(PRODUCT_TEXT_MAPPING) :
     Contains(lower(text), lower(PRODUCT_TEXT_MAPPING[k].key))}

BioVollmilch ==
  <<"B","i","o"," ","V","o","l","l","m","i","l","c","h"," ","3",".","5","%">>

\* C9: when registry keys occur in the text, the result is the entry of an
\* occurring key whose len(key) x confidence_boost no occurring key exceeds;
\* for "Bio Vollmilch 3.5%" it is the Vollmilch entry.
C9_HighestScore ==
  Identified =>
     /\ OccurringKeys(fn_text) # {} =>
          \E k \in OccurringKeys(fn_text) :
             /\ fn_product # None
             /\ fn_product.name = PRODUCT_TEXT_MAPPING[k].name
             /\ fn_product.description = PRODUCT_TEXT_MAPPING[k].description
             /\ fn_product.confidence_boost = PRODUCT_TEXT_MAPPING[k].confidence_boost
             /\ \A j \in OccurringKeys(fn_text) :
                   Len(PRODUCT_TEXT_MAPPING[j].key) * PRODUCT_TEXT_MAPPING[j].confidence_boost
                     <= Len(PRODUCT_TEXT_MAPPING[k].key) * PRODUCT_TEXT_MAPPING[k].confidence_boost
     /\ fn_text = BioVollmilch =>
          fn_product # None /\ fn_product.name = <<"V","o","l","l","m","i","l","c","h">>

C9_Witness ==
  /\ Identified
  /\ fn_text = BioVollmilch
  /\ Cardinality(OccurringKeys(fn_text)) >= 2
  /\ fn_product.name = <<"V","o","l","l","m","i","l","c","h">>

\* C10: when no registry key occurs in the text, the result is a product
\* whose name and description are get_best_text_for_title(text) if
\* is_meaningful_text(text), and None otherwise; the empty and the
\* whitespace-only text give None.
C10_NoMatch ==
  Identified =>
     /\ OccurringKeys(fn_text) = {} =>
          IF is_meaningful_text(fn_text)
          THEN /\ fn_product # None
               /\ fn_product.name = get_best_text_for_title(fn_text)
               /\ fn_product.description = get_best_text_for_title(fn_text)
          ELSE fn_product = None
     /\ strip(fn_text) = <<>> => fn_product = None

C10_Witness ==
  /\ Identified
  /\ OccurringKeys(fn_text) = {}
  /\ is_meaningful_text(fn_text)
  /\ fn_product # None
  /\ fn_product.name = <<"H","a","l","l","o">>

\* C11: a product made of the text itself (no registry key occurs in the
\* text) has a confidence_boost strictly below the confidence_boost of every
\* entry of the registry the function scans, and whenever a registry key
\* occurs the result is a registry entry, never the product made of the text.
C11_SynthesizedBelowRegistry ==
  Identified /\ fn_product # None =>
     IF OccurringKeys(fn_text) = {}
     THEN \A k \in 1..Len(PRODUCT_TEXT_MAPPING) :
             fn_product.confidence_boost < PRODUCT_TEXT_MAPPING[k].confidence_boost
     ELSE \E k \in OccurringKeys(fn_text) :
             /\ fn_product.name = PRODUCT_TEXT_MAPPING[k].name
             /\ fn_product.confidence_boost = PRODUCT_TEXT_MAPPING[k].confidence_boost
             /\ fn_product.confidence_boost > SynthesizedBoost

C11_Witness ==
  /\ Identified
  /\ OccurringKeys(fn_text) = {}
  /\ fn_product # None
  /\ fn_product.description = <<"H","a","l","l","o">>
  /\ fn_product.confidence_boost = SynthesizedBoost

\* ------------------------------------------------------------------------
\* Properties of is_meaningful_text
\* ------------------------------------------------------------------------
Judged == pc = "returned"

\* the tokens of the cleaned text
CleanedTokens(text) == split(strip(RemoveSpecial(text)))

\* the text passes the length floor, the noise ratio, the cleaned length
\* floor and has at least one candidate word
PassesSteps1To4(text) ==
  /\ Len(strip(text)) >= MinTextLength
  /\ CountSpecial(text) * 10 <= 3 * Len(text)
  /\ Len(strip(RemoveSpecial(text))) >= MinCleanedLength
  /\ \E i \in 1..Len(CleanedTokens(text)) :
        /\ Len(CleanedTokens(text)[i]) >= MinWordLength
        /\ str_isalpha(CleanedTokens(text)[i])

\* the token equals a word of the dictionary when letter case is ignored
KnownIgnoringCase(w) == \E d \in common_german_words : lower(d) = lower(w)

\* C12: is_meaningful_text("ab") is false and
\* is_meaningful_text("Weizenmehl Type 405") is true.
C12_Examples ==
  Judged =>
     /\ fn_text = <<"a","b">> => ~fn_meaningful
     /\ fn_text = <<"W","e","i","z","e","n","m","e","h","l"," ","T","y","p","e"," ","4","0","5">> => fn_meaningful

\* C13: the known-word count is case-insensitive: every token of the cleaned
\* text that equals a dictionary word when letter case is ignored is counted
\* as a known word.
C13_CaseInsensitiveCount ==
  Judged /\ PassesSteps1To4(fn_text) =>
     Len(KnownWords(CleanedTokens(fn_text)))
        = Cardinality({i \in 1..Len(CleanedTokens(fn_text)) :
                          KnownIgnoringCase(CleanedTokens(fn_text)[i])})

\* C14: a text that passes steps 1-4 and matches a structural pattern is
\* accepted whatever the known-word, letter-ratio and adjacency checks say.
C14_PatternAccepts ==
  Judged /\ PassesSteps1To4(fn_text)
         /\ StructuralPattern(fn_text, strip(RemoveSpecial(fn_text)))
     => fn_meaningful

\* ------------------------------------------------------------------------
\* Properties of get_best_text_for_title
\* ------------------------------------------------------------------------
Titled == pc = "returned"

\* the text without special characters and repeated whitespace
CleanedTitleText(text) == strip(CollapseWhitespace(BlankSpecial(text)))

\* the tokens of the cleaned text that survive the filter
SurvivingTokens(text) == TitleWords(split(CleanedTitleText(text)))

\* the words of the common-product list that occur in the cleaned text
ProductWordsIn(text) ==
  {k \in 1..Len(common_product_words) :
     Contains(lower(CleanedTitleText(text)), lower(common_product_words[k]))}

\* the text reaches the generic assembly: some token survives and no
\* common-product word occurs
GenericTitle(text) ==
  /\ Len(CleanedTitleText(text)) >= MinTitleLength
  /\ SurvivingTokens(text) # <<>>
  /\ ProductWordsIn(text) = {}

\* C15: a single capitalized token is returned by the dominant-token rule
\* only when the longest token has at least 5 characters and at least 30% of
\* the length of the cleaned text; otherwise the title is assembled from the
\* first surviving tokens; "xx yyyy zzzzzz" gives "Zzzzzz".
C15_DominantToken ==
  Titled =>
     /\ GenericTitle(fn_text) =>
          LET longest  == LongestWord(SurvivingTokens(fn_text))
              dominant == /\ Len(longest) >= DominantWordLength
                          /\ 10 * Len(longest) >= 3 * Len(CleanedTitleText(fn_text))
          IN  fn_title = IF dominant THEN capitalize(longest)
                         ELSE IF Len(SurvivingTokens(fn_text)) = 1
                              THEN capitalize(SurvivingTokens(fn_text)[1])
                              ELSE AssembledTitle(SurvivingTokens(fn_text))
     /\ fn_text = <<"x","x"," ","y","y","y","y"," ","z","z","z","z","z","z">> => fn_title = <<"Z","z","z","z","z","z">>

\* C16 as stated: whenever a word of the common-product list occurs in the
\* cleaned text (of length >= 3), that canonical word is returned.
C16_Original ==
  Titled /\ Len(CleanedTitleText(fn_text)) >= MinTitleLength
         /\ ProductWordsIn(fn_text) # {}
     => \E k \in ProductWordsIn(fn_text) : fn_title = common_product_words[k]

\* C16: when a word of the common-product list occurs in the cleaned text (of
\* length >= 3) and at least one token survives the filter, the result is the
\* first word of the list, in list order, that occurs, whatever the generic
\* assembly would give; when no token survives, the result is the placeholder
\* or a type code, never the product word.
C16_ProductWordFirst ==
  Titled /\ Len(CleanedTitleText(fn_text)) >= MinTitleLength
         /\ ProductWordsIn(fn_text) # {}
     => IF SurvivingTokens(fn_text) # <<>>
        THEN \E k \in ProductWordsIn(fn_text) :
                /\ fn_title = common_product_words[k]
                /\ \A m \in ProductWordsIn(fn_text) : k <= m
        ELSE \A k \in ProductWordsIn(fn_text) : fn_title # common_product_words[k]

C16_Witness ==
  /\ Titled
  /\ fn_text = <<"z","z","z","z","z","z"," ","M","i","l","c","h"," ","Z","u","c","k","e","r">>
  /\ Cardinality(ProductWordsIn(fn_text)) = 2
  /\ LongestWord(SurvivingTokens(fn_text)) = <<"z","z","z","z","z","z">>
  /\ fn_title = <<"Z","u","c","k","e","r">>

\* the characters of s from the second on are in lower case
RestLower(s) == \A i \in 2..Len(s) : s[i] = lower_char(s[i])

\* C17 as stated: when no token survives the filter and the cleaned text
\* holds a type code, the matched substring is returned verbatim.
C17_Original ==
  Titled /\ Len(CleanedTitleText(fn_text)) >= MinTitleLength
         /\ SurvivingTokens(fn_text) = <<>>
         /\ TypeCodeMatch(CleanedTitleText(fn_text)) # <<>>
     => fn_title = TypeCodeMatch(CleanedTitleText(fn_text))

\* C17: when no token survives the filter and the cleaned text holds a type
\* code, the result is the matched substring with its first character in
\* upper case and every other character in lower case: the same characters
\* when letter case is ignored, "TYP 405" becoming "Typ 405".
C17_TypeCodeCapitalized ==
  Titled /\ Len(CleanedTitleText(fn_text)) >= MinTitleLength
         /\ SurvivingTokens(fn_text) = <<>>
         /\ TypeCodeMatch(CleanedTitleText(fn_text)) # <<>>
     => /\ lower(fn_title) = lower(TypeCodeMatch(CleanedTitleText(fn_text)))
        /\ fn_title[1] = upper_char(fn_title[1])
        /\ RestLower(fn_title)

C17_Witness ==
  /\ Titled
  /\ fn_text = <<"k","g"," ","T","Y","P"," ","4","0","5">>
  /\ TypeCodeMatch(CleanedTitleText(fn_text)) = <<"T","Y","P"," ","4","0","5">>
  /\ fn_title = <<"T","y","p"," ","4","0","5">>

\* ------------------------------------------------------------------------
\* Properties of extract_text
\* ------------------------------------------------------------------------
Extracted == pc = "returned"

\* the text a pass read, as one line: its non-blank lines, each stripped,
\* joined by single spaces
PassText(pass) == join(<<" ">>, CleanLines(pass.text))

\* no pass read anything but whitespace
NothingRead(ocr) == \A i \in 1..3 : ~ocr[i].ok \/ strip(ocr[i].text) = <<>>

\* C18: extract_text never raises: whatever pass or conversion fails, it
\* returns a string, and the empty string when nothing could be read.
C18_NeverRaises ==
  /\ pc # "raised"
  /\ Extracted =>
       /\ \A i \in 1..Len(fn_extracted) : fn_extracted[i] \in STRING
       /\ NothingRead(fn_ocr) => fn_extracted = <<>>

C18_Witness ==
  /\ Extracted
  /\ ~fn_ocr[1].ok
  /\ ~fn_ocr[2].ok
  /\ ~fn_ocr[3].ok
  /\ fn_extracted = <<>>

\* C19: the failure of one pass is recovered locally: the other passes are
\* still attempted and the returned string contains the text of every pass
\* that succeeded.
C19_LocalRecovery ==
  Extracted =>
     \A i \in 1..3 : fn_ocr[i].ok => Contains(fn_extracted, PassText(fn_ocr[i]))

\* C20 as stated: the returned string has no leading or trailing whitespace
\* and no run of two or more whitespace characters.
C20_Original ==
  Extracted =>
     /\ fn_extracted = strip(fn_extracted)
     /\ \A i \in 1..(Len(fn_extracted) - 1) :
           ~(isspace(fn_extracted[i]) /\ isspace(fn_extracted[i + 1]))

\* the two characters occur next to each other inside a line some
\* successful pass read
RunInsideLine(ocr, c, d) ==
  \E j \in 1..3 :
     /\ ocr[j].ok
     /\ \E m \in 1..(Len(ocr[j].text) - 1) :
           ocr[j].text[m] = c /\ ocr[j].text[m + 1] = d

\* C20: the returned string has no leading or trailing whitespace and no
\* line break, the lines of the passes being joined by single spaces; two
\* whitespace characters follow each other in it only where they do inside a
\* line one of the passes read.
C20_LinesTrimmedAndJoined ==
  Extracted =>
     /\ fn_extracted = strip(fn_extracted)
     /\ \A i \in 1..Len(fn_extracted) : fn_extracted[i] # "\n"
     /\ \A i \in 1..(Len(fn_extracted) - 1) :
           isspace(fn_extracted[i]) /\ isspace(fn_extracted[i + 1])
              => RunInsideLine(fn_ocr, fn_extracted[i], fn_extracted[i + 1])

C20_Witness ==
  /\ Extracted
  /\ fn_ocr[1] = PassReads(<<" ","M","i","l","c","h"," ","\n">>)
  /\ fn_ocr[2] = PassReads(<<"H","a","l","l","o"," "," ","W","e","l","t","\n">>)
  /\ fn_ocr[3] = PassReads(<<"B","i","o","\n","\n"," ","3",".","5","%"," ","\n","\t">>)
  /\ fn_extracted = <<"M","i","l","c","h"," ","H","a","l","l","o"," "," ","W","e","l","t"," ","B","i","o"," ","3",".","5","%">>

\* ------------------------------------------------------------------------
\* Failures and order of the steps of predict
\* ------------------------------------------------------------------------
\* some OCR pass of the request failed
SomePassFailed == \E k \in 1..3 : ~image.ocr[k].ok

\* the list holds the classifier's results in order, after the text entry
\* if there is one
VisualEntriesKept ==
  IF IsTextEntry(results[1])
  THEN Len(results) = MaxResults /\ \A i \in 2..MaxResults : IsVisualEntry(results[i], i - 1)
  ELSE Len(results) = TopK /\ \A i \in 1..TopK : IsVisualEntry(results[i], i)

C23_StepOrder ==
  \A i \in 1..Len(invoked) :
     /\ invoked[i] = "classifier" => i = 1
     /\ invoked[i] = "extract_text" =>
          i = 2 /\ invoked[1] = "classifier" /\ image.probs[1] <= HighConfidence
     /\ invoked[i] = "is_meaningful_text" => i = 3 /\ invoked[2] = "extract_text"
     /\ invoked[i] = "identify_product_from_text" =>
          i = 4 /\ invoked[3] = "is_meaningful_text" /\ is_meaningful_text(extracted_text)
     /\ invoked[i] = "results" =>
          /\ i = Len(invoked)
          /\ invoked[1] = "classifier"
          /\ IF image.probs[1] > HighConfidence THEN i = 2
             ELSE i \in {4, 5} /\ invoked[3] = "is_meaningful_text"
          /\ i = 4 => ~is_meaningful_text(extracted_text)

C23_Witness ==
  /\ Returned
  /\ invoked = <<"classifier", "extract_text", "is_meaningful_text",
                 "identify_product_from_text", "results">>
  /\ IsTextEntry(results[1])

\* ------------------------------------------------------------------------
\* Synthesized products and ties
\* ------------------------------------------------------------------------
\* the confidence of a text entry built from a product with that boost
TextConfidenceOf(boost) == TextConfidenceFactor * boost

\* C27: a text entry built from a synthesized product (no registry key in
\* the extracted text, boost 0.85) appears only when the top confidence is
\* at most 0.4; when it is above 0.4 (and at most 0.75) every text entry
\* comes from a registry match, with a boost of at least 1.2.
C27_SynthesizedOnlyWhenUnsure ==
  Returned =>
     \A i \in 1..Len(results) :
        IsTextEntry(results[i]) =>
           /\ image.probs[1] <= HighConfidence
           /\ (\/ OccurringKeys(results[i].extracted_text) = {}
               \/ results[i].confidence = TextConfidenceOf(SynthesizedBoost))
                 => image.probs[1] <= ModerateConfidence
           /\ image.probs[1] > ModerateConfidence =>
                /\ results[i].confidence >= TextConfidenceOf(SpecificBoost)
                /\ \E k \in OccurringKeys(results[i].extracted_text) :
                      /\ results[i].class_name = PRODUCT_TEXT_MAPPING[k].name
                      /\ results[i].confidence
                           = TextConfidenceOf(PRODUCT_TEXT_MAPPING[k].confidence_boost)

C27_Witness ==
  /\ Returned
  /\ image.probs[1] < ModerateConfidence
  /\ IsTextEntry(results[1])
  /\ OccurringKeys(results[1].extracted_text) = {}
  /\ results[1].confidence = TextConfidenceOf(SynthesizedBoost)

\* the occurring keys of the highest score len(key) x confidence_boost
TopScoreKeys(text) ==
  {k \in OccurringKeys(text) : \A j \in OccurringKeys(text) : Score(j) <= Score(k)}

IsbnMilch == <<"I","S","B","N"," ","M","i","l","c","h">>

\* C28: when several occurring registry keys share the highest score
\* len(key) x confidence_boost, the entry declared first in the registry is
\* returned, wherever the keys occur in the text; "ISBN Milch" and
\* "Milch ISBN" both give the Milch entry.
C28_FirstDeclaredWins ==
  Identified /\ OccurringKeys(fn_text) # {} =>
     /\ \E k \in TopScoreKeys(fn_text) :
           /\ \A j \in TopScoreKeys(fn_text) : k <= j
           /\ fn_product # None
           /\ fn_product.name = PRODUCT_TEXT_MAPPING[k].name
           /\ fn_product.description = PRODUCT_TEXT_MAPPING[k].description
     /\ fn_text = IsbnMilch => fn_product.description = <<"F","r","i","s","c","h","e"," ","M","i","l","c","h">>

C28_Witness ==
  /\ Identified
  /\ fn_text = IsbnMilch
  /\ Cardinality(TopScoreKeys(fn_text)) = 2
  /\ fn_product.name = <<"M","i","l","c","h">>

\* ------------------------------------------------------------------------
\* The two profiles of is_meaningful_text
\* ------------------------------------------------------------------------
\* C26: every text the strict is_meaningful_text accepts is accepted by the
\* legacy is_meaningful_text too.
C26_StrictImpliesLegacy ==
  pc = "returned" /\ fn_meaningful => fn_legacy

\* ------------------------------------------------------------------------
\* Properties of check_expiry
\* ------------------------------------------------------------------------
Answered == pc = "returned"

MeatOrFishKeywords ==
  {<<"f","l","e","i","s","c","h">>, <<"w","u","r","s","t">>, <<"s","c","h","i","n","k","e","n">>, <<"h","ä","h","n","c","h","e","n">>, <<"h","u","h","n">>, <<"f","i","s","c","h">>, <<"l","a","c","h","s">>, <<"t","h","u","n","f","i","s","c","h">>, <<"f","o","r","e","l","l","e">>}

\* the name holds a meat or fish keyword, letter case ignored
NamesMeatOrFish(product) ==
  \E w \in MeatOrFishKeywords : Contains(lower(product), w)

\* C29: check_expiry never answers is_safe = true for a product whose name
\* holds a meat or fish keyword, whatever daysExpired is and whatever other
\* keyword the name holds.
C29_MeatFishNeverSafe ==
  Answered /\ http_request.json /\ NamesMeatOrFish(http_request.product) =>
     /\ http_response.status = 200
     /\ ~http_response.is_safe

C29_Witness ==
  /\ Answered
  /\ http_request.json
  /\ http_request.product = <<"R","e","i","s"," ","m","i","t"," ","H","u","h","n">>
  /\ http_request.daysExpired = 7
  /\ ~http_response.is_safe
  /\ http_response.recommendation = "Fleisch und Fisch"

\* ------------------------------------------------------------------------
\* Properties of check_leftovers
\* ------------------------------------------------------------------------
\* C30: for foodType "milch" check_leftovers answers is_safe = true only if
\* no spoilage signs were reported, the food was kept in the fridge and it is
\* at most 7 days old.
C30_DairyOnlyFreshAndCooled ==
  Answered /\ http_response.status = 200 /\ http_request.foodType = "milch"
           /\ http_response.is_safe
     => /\ ~http_request.signsSpoilage
        /\ http_request.storageType = "kuehlschrank"
        /\ http_request.daysOld.value <= 7

\* ------------------------------------------------------------------------
\* Properties of the /predict handler
\* ------------------------------------------------------------------------
\* C22: on a fatal failure predict raises without any list, not a partial
\* one, and the handler then answers with an error response and leaves
\* session['last_prediction'] as it was.
C22_FatalFailure ==
  /\ [](pc = "raised" => image.fault \in {"decode", "model"} /\ results = <<>>)
  /\ [][pc = "raised" =>
          /\ http_response'.status = 500
          /\ "predictions" \notin DOMAIN http_response'
          /\ session' = session]_vars

C22_Witness ==
  /\ pc = "idle"
  /\ http_request # None
  /\ http_request.kind = "image"
  /\ http_request.image.fault = "model"
  /\ http_response.status = 500
  /\ session # None

\* C24: a later call of predict on the image of an earlier call returns the
\* list the earlier call returned, and no call changes a field of the
\* recognizer.
C24_Idempotent ==
  /\ recognizer = LoadedRecognizer
  /\ pc = "done" /\ served # None /\ image = served.image
       => results = served.predictions

C24_Witness ==
  /\ pc = "done"
  /\ served # None
  /\ image = served.image
  /\ IsTextEntry(results[1])
  /\ results = served.predictions


\* a call of predict that is over: it returned its list or it raised
Over(r) == reqs[r].pc \in {"done", "raised"}

\* C25: whatever the interleaving of the steps of the requests on the shared
\* recognizer, a call that is over raised exactly when the same call run alone
\* raises and otherwise holds the list the call run alone returns, and the
\* fields of the recognizer are the ones __init__ left
C25_NoInterference ==
  /\ recognizer = LoadedRecognizer
  /\ \A r \in DOMAIN reqs :
       Over(r) =>
         /\ (reqs[r].pc = "raised") = predict(reqs[r].image).raised
         /\ reqs[r].results = predict(reqs[r].image).results

\* two calls on images with different texts were in flight together and both
\* returned, one of them with a product identified from its text
C25_Witness ==
  /\ DOMAIN reqs = Requests
  /\ reqs[1].pc = "done"
  /\ reqs[2].pc = "done"
  /\ reqs[1].extracted_text # <<>>
  /\ reqs[2].extracted_text # <<>>
  /\ reqs[1].extracted_text # reqs[2].extracted_text
  /\ reqs[1].text_based_product # None
  /\ reqs[2].text_based_product = None

=============================================================================
